---- MODULE Spec2Model ----
(***************************************************************************)
(* A model of gmail-rulemaster: the Email Store and Action Ledger of       *)
(* email_fetcher.py (store_email, fetch_emails_from_db, record_rule_action,*)
(* modify_labels, get_or_create_label, fetch_emails_and_store) and the     *)
(* rule engine of email_processor.py (evaluate_condition, evaluate_rule,   *)
(* apply_action, process_emails_with_rules).                               *)
(*                                                                         *)
(* Python strings that the code case-folds, splits or searches are         *)
(* sequences of one-character strings; strings the code only copies or     *)
(* compares whole are TLA+ strings.  Instants are integers counted in      *)
(* ticks, TicksPerDay ticks to the day.                                    *)
(***************************************************************************)
EXTENDS Integers, Sequences, FiniteSets, TLC

\* ------------------------------------------------------------------------
\* Bounds of the model
\* ------------------------------------------------------------------------

\* ticks in one day: the resolution of the clock
TicksPerDay == 2

\* longest field text and longest condition value drawn by the evaluator checks
MaxFieldLen == 3

MaxValueLen == 2

\* the evaluator checks read the clock at 0..MaxTick and take dates around it
MaxTick == 4

\* the longest condition list of a rule drawn by the evaluator checks
MaxConditions == 2

\* ------------------------------------------------------------------------
\* Python values
\* ------------------------------------------------------------------------

\* A value that may be None (SQL NULL) is a sequence: <<>> for None, <<x>>
\* for the value x
None == <<>>

Some(x) == <<x>>

Val(o) == o[1]

\* str.lower() on one ASCII character
LowerChar(c) ==
    CASE c = "A" -> "a" [] c = "B" -> "b" [] c = "C" -> "c" [] c = "D" -> "d"
      [] c = "E" -> "e" [] c = "F" -> "f" [] c = "G" -> "g" [] c = "H" -> "h"
      [] c = "I" -> "i" [] c = "J" -> "j" [] c = "K" -> "k" [] c = "L" -> "l"
      [] c = "M" -> "m" [] c = "N" -> "n" [] c = "O" -> "o" [] c = "P" -> "p"
      [] c = "Q" -> "q" [] c = "R" -> "r" [] c = "S" -> "s" [] c = "T" -> "t"
      [] c = "U" -> "u" [] c = "V" -> "v" [] c = "W" -> "w" [] c = "X" -> "x"
      [] c = "Y" -> "y" [] c = "Z" -> "z" [] OTHER -> c

\* str.lower()
Lower(s) == [i \in 1..Len(s) |-> LowerChar(s[i])]

\* s.startswith(p)
\* a startswith that takes only the whole string
StartsWith_whole(s, p) == s = p

\* s.startswith(p)
StartsWith(s, p) == Len(p) <= Len(s) /\ SubSeq(s, 1, Len(p)) = p

\* `v in s` on strings: a left-to-right scan for the first position where v
\* starts
RECURSIVE FindFrom(_, _, _)
FindFrom(s, v, i) ==
    IF i + Len(v) - 1 > Len(s) THEN FALSE
    ELSE IF SubSeq(s, i, i + Len(v) - 1) = v THEN TRUE
    ELSE FindFrom(s, v, i + 1)

\* `s.startswith(v)` in the place of `v in s`
StrIn_prefix(v, s) == StartsWith(s, v)

StrIn(v, s) == FindFrom(s, v, 1)

\* str.split(): the maximal runs of non-whitespace characters, in order
IsSpace(c) == c \in {" ", "\t", "\n"}

RECURSIVE SplitFrom(_, _, _)
SplitFrom(s, i, cur) ==
    IF i > Len(s) THEN (IF cur = <<>> THEN <<>> ELSE <<cur>>)
    ELSE IF IsSpace(s[i])
         THEN (IF cur = <<>> THEN <<>> ELSE <<cur>>) \o SplitFrom(s, i + 1, <<>>)
         ELSE SplitFrom(s, i + 1, Append(cur, s[i]))

Split(s) == SplitFrom(s, 1, <<>>)

\* int(token): an optional sign, then decimal digits with single underscores
\* allowed between them; anything else raises ValueError (None here)
DigitValue(c) ==
    CASE c = "0" -> 0 [] c = "1" -> 1 [] c = "2" -> 2 [] c = "3" -> 3
      [] c = "4" -> 4 [] c = "5" -> 5 [] c = "6" -> 6 [] c = "7" -> 7
      [] c = "8" -> 8 [] c = "9" -> 9 [] OTHER -> -1

RECURSIVE DigitsValue(_, _)
DigitsValue(t, acc) ==
    IF t = <<>> THEN acc
    ELSE IF Head(t) = "_"
         THEN (IF Len(t) > 1 /\ DigitValue(t[2]) >= 0 THEN DigitsValue(Tail(t), acc) ELSE -1)
    ELSE IF DigitValue(Head(t)) < 0 THEN -1
    ELSE DigitsValue(Tail(t), 10 * acc + DigitValue(Head(t)))

ParseInt(t) ==
    LET signed == t # <<>> /\ Head(t) \in {"+", "-"}
        digits == IF signed THEN Tail(t) ELSE t
        mag == IF digits = <<>> \/ DigitValue(Head(digits)) < 0 THEN -1
               ELSE DigitsValue(digits, 0)
    IN  IF mag < 0 THEN None
        ELSE IF signed /\ Head(t) = "-" THEN Some(0 - mag) ELSE Some(mag)

\* the literals the code compares against
S_from == <<"f","r","o","m">>
S_to == <<"t","o">>
S_subject == <<"s","u","b","j","e","c","t">>
S_message == <<"m","e","s","s","a","g","e">>
S_received == <<"r","e","c","e","i","v","e","d">>
S_contains == <<"c","o","n","t","a","i","n","s">>
S_does_not_contain == <<"d","o","e","s"," ","n","o","t"," ","c","o","n","t","a","i","n">>
S_equals == <<"e","q","u","a","l","s">>
S_does_not_equal == <<"d","o","e","s"," ","n","o","t"," ","e","q","u","a","l">>
S_greater_than == <<"g","r","e","a","t","e","r"," ","t","h","a","n">>
S_less_than == <<"l","e","s","s"," ","t","h","a","n">>
S_day == <<"d","a","y">>
S_month == <<"m","o","n","t","h">>
S_all == <<"a","l","l">>
S_any == <<"a","n","y">>

\* timedelta(days=30) per month
DaysPerMonth == 30

\* ------------------------------------------------------------------------
\* email_processor.evaluate_condition / evaluate_rule
\* ------------------------------------------------------------------------

\* Older with the boundary included
Older_inclusive(email_date, threshold) == email_date <= threshold

\* `email_date < threshold`: the email is older than the specified time
Older(email_date, threshold) == email_date < threshold

\* `email_date > threshold`: the email is newer than the specified time
Newer(email_date, threshold) == email_date > threshold

\* datetime.isoformat() of the aware datetime parser.parse made of a Date
\* header: the wall-clock time and the UTC offset as the header has them
\* ("2024-05-01T08:00:00+05:30"), here in ticks
isoformat(local, offset) == [local |-> local, offset |-> offset]

\* parser.parse(text) of an isoformat text: the aware datetime, which compares
\* with other datetimes by its instant, the wall-clock time less the offset
parser_parse(text) == text.local - text.offset

\* how a call ends: it returns a value, or raises the exception named
Returns(value) == [raised |-> "", result |-> value]

Raises(exception) == [raised |-> exception, result |-> FALSE]

\* a condition value that is not a str (the JSON number 5): an object without
\* .lower() and .split(), written as a sequence that no string is
NotAString == <<"5 (int)">>

IsStr(value) == \A n \in 1..Len(value) : value[n] # NotAString[1]

\* the body of the `try:` of the 'received' branch: email is a row of the
\* emails table, now the clock read by datetime.now()
received_try(email, predicate, value, now) ==
    IF email.parsed_date = None THEN Returns(FALSE)
    ELSE IF ~IsStr(value) THEN Raises("AttributeError")
    ELSE
      LET parts == Split(value)
      IN  IF Len(parts) # 2 THEN Returns(FALSE)
          ELSE
            LET parsed == ParseInt(parts[1])
                amount == Val(parsed)
                unit == Lower(parts[2])
                email_date == parser_parse(Val(email.parsed_date))
            IN  IF parsed = None THEN Raises("ValueError")
                ELSE IF predicate = S_greater_than
                THEN IF StartsWith(unit, S_day)
                     THEN Returns(Older(email_date, now - amount * TicksPerDay))
                     ELSE IF StartsWith(unit, S_month)
                     THEN Returns(Older(email_date,
                                        now - amount * DaysPerMonth * TicksPerDay))
                     ELSE Returns(FALSE)
                ELSE IF predicate = S_less_than
                THEN IF StartsWith(unit, S_day)
                     THEN Returns(Newer(email_date, now - amount * TicksPerDay))
                     ELSE IF StartsWith(unit, S_month)
                     THEN Returns(Newer(email_date,
                                        now - amount * DaysPerMonth * TicksPerDay))
                     ELSE Returns(FALSE)
                ELSE Returns(FALSE)

\* a handler that lets the exception through
except_nothing(body) == body

\* `except Exception as e: ... return False`
except_Exception(body) == IF body.raised # "" THEN Returns(FALSE) ELSE body

\* the 'received' branch: the try statement
evaluate_received(email, predicate, value, now) ==
    except_Exception(received_try(email, predicate, value, now))

\* compare_text without the case folding of the field
compare_text_field_case(predicate, value, field_value) ==
    IF predicate = S_contains THEN StrIn(Lower(value), field_value)
    ELSE IF predicate = S_does_not_contain THEN ~StrIn(Lower(value), field_value)
    ELSE IF predicate = S_equals THEN Lower(value) = field_value
    ELSE IF predicate = S_does_not_equal THEN Lower(value) # field_value
    ELSE FALSE

\* the string comparisons at the end of evaluate_condition
compare_text(predicate, value, field_value) ==
    IF predicate = S_contains THEN StrIn(Lower(value), Lower(field_value))
    ELSE IF predicate = S_does_not_contain THEN ~StrIn(Lower(value), Lower(field_value))
    ELSE IF predicate = S_equals THEN Lower(value) = Lower(field_value)
    ELSE IF predicate = S_does_not_equal THEN Lower(value) # Lower(field_value)
    ELSE FALSE

\* the string comparisons with value.lower() taken once, ahead of the
\* predicate tests
text_comparison_eager(predicate, value, field_value) ==
    IF ~IsStr(value) THEN Raises("AttributeError")
    ELSE Returns(compare_text(predicate, value, field_value))

\* the string comparisons as a call: value.lower() is reached, and raises on a
\* value that is not a str, only under one of the four predicates
text_comparison(predicate, value, field_value) ==
    IF predicate \in {S_contains, S_does_not_contain, S_equals, S_does_not_equal}
       /\ ~IsStr(value)
    THEN Raises("AttributeError")
    ELSE Returns(compare_text(predicate, value, field_value))

\* evaluate_condition(email, condition): how the call ends
condition_outcome(email, condition, now) ==
    LET field == Lower(condition.field)
        predicate == Lower(condition.predicate)
        value == condition.value
    IN  IF field = S_from THEN text_comparison(predicate, value, email.sender)
        ELSE IF field = S_to THEN text_comparison(predicate, value, email.recipient)
        ELSE IF field = S_subject THEN text_comparison(predicate, value, email.subject)
        ELSE IF field = S_message THEN text_comparison(predicate, value, email.body)
        ELSE IF field = S_received THEN evaluate_received(email, predicate, value, now)
        ELSE Returns(FALSE)

\* the value evaluate_condition returns
evaluate_condition(email, condition, now) == condition_outcome(email, condition, now).result

\* all(results) / any(results) over the list of condition results
AllTrue(results) == \A i \in 1..Len(results) : results[i]

AnyTrue(results) == \E i \in 1..Len(results) : results[i]

\* a rule is a record; a key the JSON object lacks is a field the record
\* lacks (rule.get(key, default))
RuleGet(rule, key, default) == IF key \in DOMAIN rule THEN rule[key] ELSE default

\* a rule evaluator without the empty-list check
NoConditions_unchecked(conditions) == FALSE

\* `if not conditions:`
NoConditions(conditions) == conditions = <<>>

\* evaluate_rule comparing the predicate as written, not lower-cased
evaluate_rule_predicate_case(email, rule, now) ==
    LET predicate == RuleGet(rule, "predicate", S_all)
        conditions == RuleGet(rule, "conditions", <<>>)
    IN  IF NoConditions(conditions) THEN FALSE
        ELSE
          LET results == [i \in 1..Len(conditions) |->
                              evaluate_condition(email, conditions[i], now)]
          IN  IF predicate = S_all THEN AllTrue(results)
              ELSE IF predicate = S_any THEN AnyTrue(results)
              ELSE AllTrue(results)

\* evaluate_rule(email, rule), the clock read by its conditions at now
evaluate_rule(email, rule, now) ==
    LET predicate == Lower(RuleGet(rule, "predicate", S_all))
        conditions == RuleGet(rule, "conditions", <<>>)
    IN  IF NoConditions(conditions) THEN FALSE
        ELSE
          LET results == [i \in 1..Len(conditions) |->
                              evaluate_condition(email, conditions[i], now)]
          IN  IF predicate = S_all THEN AllTrue(results)
              ELSE IF predicate = S_any THEN AnyTrue(results)
              ELSE AllTrue(results)

\* the exception evaluate_rule lets through ("" for none): that of the first
\* condition whose evaluation raises, the list of results being built in order
evaluate_rule_raises(email, rule, now) ==
    LET conditions == RuleGet(rule, "conditions", <<>>)
        raising == {i \in 1..Len(conditions) :
                       condition_outcome(email, conditions[i], now).raised # ""}
    IN  IF raising = {} THEN ""
        ELSE condition_outcome(email,
                 conditions[CHOOSE i \in raising : \A q \in raising : i <= q], now).raised

\* ------------------------------------------------------------------------
\* The provider's mailbox, the rules file and the state of the program
\* ------------------------------------------------------------------------

\* the message ids the provider lists
MsgIds == {"m1", "m2"}

\* what get_message_detail returns for a message: the provider's copy of a
\* message changes between fetches (read elsewhere, relabelled), so each id has
\* several details, every field differing from one to the other
Details ==
    { [id |-> "m1", thread_id |-> "t1", snippet |-> "s1",
       subject |-> <<"N","e","w","s">>, from |-> <<"a","@","n">>, to |-> <<"m","e">>,
       date |-> "d1", parsed_date |-> Some(isoformat(-3, 0)), body |-> <<"h","i">>,
       is_read |-> FALSE, labels |-> "INBOX,UNREAD"],
      [id |-> "m1", thread_id |-> "t1b", snippet |-> "s1b",
       subject |-> <<"R","e">>, from |-> <<"b","@","x">>, to |-> <<"y","o","u">>,
       date |-> "N/A", parsed_date |-> None, body |-> <<"N","/","A">>,
       is_read |-> TRUE, labels |-> "INBOX"],
      [id |-> "m2", thread_id |-> "t2", snippet |-> "s2",
       subject |-> <<"n">>, from |-> <<"c","@","x">>, to |-> <<"m","e">>,
       date |-> "d2", parsed_date |-> Some(isoformat(-2, 0)), body |-> <<"o","k">>,
       is_read |-> TRUE, labels |-> "INBOX"] }

\* JSON values of an action's "value": true/false, a string, null, a number
JBool(b) == [t |-> "bool", b |-> b]

JStr(s) == [t |-> "str", v |-> s]

JNull == [t |-> "null"]

JNum(n) == [t |-> "num", n |-> n]

S_mark_as_read == <<"m","a","r","k","_","a","s","_","r","e","a","d">>
S_move_message == <<"m","o","v","e","_","m","e","s","s","a","g","e">>
S_INBOX == <<"I","N","B","O","X">>
S_TRASH == <<"T","R","A","S","H">>
S_SPAM == <<"S","P","A","M">>
S_UNREAD == <<"U","N","R","E","A","D">>
S_Work == <<"W","o","r","k">>
S_archive == <<"a","r","c","h","i","v","e">>
S_n == <<"n">>
S_1_day == <<"1"," ","d","a","y">>

\* the default rule load_rules writes when the rules file is missing
DefaultRule ==
    [id |-> "rule1", predicate |-> S_any,
     conditions |-> << [field |-> S_from, predicate |-> S_contains, value |-> S_n],
                       [field |-> S_subject, predicate |-> S_contains, value |-> S_n] >>,
     actions |-> << [type |-> S_mark_as_read, value |-> JBool(TRUE)] >>]

\* a rule without an id that moves to a user label and then names an action
\* type the engine does not know
MoveRule ==
    [predicate |-> <<"A","L","L">>,
     conditions |-> << [field |-> S_subject, predicate |-> S_contains, value |-> S_n] >>,
     actions |-> << [type |-> S_move_message, value |-> JStr(S_Work)],
                    [type |-> S_archive, value |-> JNull] >>]

\* a rule with no condition
EmptyRule ==
    [id |-> "rule3", predicate |-> S_any, conditions |-> <<>>,
     actions |-> << [type |-> S_mark_as_read, value |-> JBool(FALSE)] >>]

\* a rule on the age of the email, without a predicate
OldRule ==
    [id |-> "rule4",
     conditions |-> << [field |-> S_received, predicate |-> S_greater_than,
                        value |-> S_1_day] >>,
     actions |-> << [type |-> <<"M","a","r","k","_","A","s","_","R","e","a","d">>,
                     value |-> JBool(FALSE)] >>]

\* the rule lists the rules file may hold ("rules" of the JSON document)
RuleSets == { <<DefaultRule>>, <<MoveRule, EmptyRule>>, <<OldRule, DefaultRule>> }

\* the rules file: absent, not JSON, or a document with a rule list
RulesFiles == {[kind |-> "missing"], [kind |-> "corrupt"]}
                  \cup {[kind |-> "json", rules |-> rs] : rs \in RuleSets}

\* the clock stops here
MaxNow == 1

\* no run starts that could take the ledger beyond this length
MaxLedger == 2

\* the labels the provider has before any is created: the system labels
SystemLabels ==
    << [id |-> S_INBOX, name |-> S_INBOX], [id |-> S_TRASH, name |-> S_TRASH],
       [id |-> S_SPAM, name |-> S_SPAM], [id |-> S_UNREAD, name |-> S_UNREAD] >>

VARIABLES
    emails,      \* the emails table: its rows in rowid order
    ledger,      \* the rule_actions table: its rows in AUTOINCREMENT order
    rulesFile,   \* email_rules.json
    labels,      \* the provider's label list
    now,         \* the clock
    pc,          \* "idle", or the run in progress: "sync" or "process"
    sync,        \* fetch_emails_and_store's locals
    run,         \* process_emails_with_rules's locals
    calls,       \* the provider calls issued by the current or last process run
    returned,    \* what the last finished run returned
    upserted,    \* history: per id, the detail of its last successful store_email
    prev,        \* history: the process run before, if nothing it read has
                 \* changed since
    evKind, evEmail, evCond, evRule, evAction, evNow, evDone, evResult, evError,
    evApplied,
                 \* the evaluator checks: one evaluation's inputs, the value
                 \* returned and the exception raised ("" for none), or what
                 \* one apply_action call was given and did
    writers,     \* concurrent store_email calls: per caller its argument, its
                 \* position and what it returned
    fetched,     \* what a fetch_emails_from_db call beside them returned
    listing      \* list_messages's locals and the provider's side of the paging

sysVars == <<emails, ledger, rulesFile, labels, now, pc, sync, run, calls,
             returned, upserted, prev>>

evVars == <<evKind, evEmail, evCond, evRule, evAction, evNow, evDone, evResult, evError,
            evApplied>>

auxVars == <<writers, fetched, listing>>

vars == <<sysVars, evVars, auxVars>>

\* ------------------------------------------------------------------------
\* email_fetcher: the Email Store
\* ------------------------------------------------------------------------

\* the column values store_email binds from a detail (both the UPDATE and the
\* INSERT bind the same eleven keys)
Row(d) ==
    [id |-> d.id, thread_id |-> d.thread_id, subject |-> d.subject,
     sender |-> d.from, recipient |-> d.to, received_date |-> d.date,
     parsed_date |-> d.parsed_date, snippet |-> d.snippet, body |-> d.body,
     is_read |-> d.is_read, labels |-> d.labels]

\* store_email whose UPDATE leaves is_read and labels as they were
store_email_stale_flags(rows, d) ==
    IF \E n \in 1..Len(rows) : rows[n].id = d.id
    THEN [n \in 1..Len(rows) |->
             IF rows[n].id = d.id
             THEN [Row(d) EXCEPT !.is_read = rows[n].is_read, !.labels = rows[n].labels]
             ELSE rows[n]]
    ELSE Append(rows, Row(d))

\* a store that keeps the rows of the latest detail only
store_email_latest_only(rows, d) == <<Row(d)>>

\* store_email when no sqlite3.Error is raised: SELECT id ... WHERE id = ?, then
\* UPDATE ... WHERE id = ? if a row came back, INSERT otherwise
store_email(rows, d) ==
    IF \E n \in 1..Len(rows) : rows[n].id = d.id
    THEN [n \in 1..Len(rows) |-> IF rows[n].id = d.id THEN Row(d) ELSE rows[n]]
    ELSE Append(rows, Row(d))

\* the order of two parsed_date values of the TEXT column under sqlite's
\* BINARY collation, byte by byte: the wall-clock part first, written in
\* digits of fixed width, then the offset: "+" sorts before "-", then its
\* digits
TextLess(s, t) ==
    IF s.local # t.local THEN s.local < t.local
    ELSE IF (s.offset >= 0) # (t.offset >= 0) THEN s.offset >= 0
    ELSE IF s.offset >= 0 THEN s.offset < t.offset
    ELSE t.offset < s.offset

\* ORDER BY parsed_date DESC: NULL sorts below every value, so last; rows with
\* equal keys are taken in rowid order
Before(rows, a, b) ==
    LET da == rows[a].parsed_date
        db == rows[b].parsed_date
    IN  IF da = None /\ db = None THEN a < b
        ELSE IF da = None THEN FALSE
        ELSE IF db = None THEN TRUE
        ELSE TextLess(Val(db), Val(da)) \/ (Val(da) = Val(db) /\ a < b)

Rank(rows, a) == 1 + Cardinality({b \in 1..Len(rows) : Before(rows, b, a)})

\* fetch_emails_from_db when no sqlite3.Error is raised
fetch_emails_from_db(rows, limit) ==
    LET n == IF Len(rows) < limit THEN Len(rows) ELSE limit
    IN  [r \in 1..n |-> rows[CHOOSE a \in 1..Len(rows) : Rank(rows, a) = r]]

\* process_emails_with_rules asks for fetch_emails_from_db(limit=100)
ProcessLimit == 100

\* ------------------------------------------------------------------------
\* email_fetcher.fetch_emails_and_store
\* ------------------------------------------------------------------------

RECURSIVE SeqsOver(_)
\* the lists of distinct elements of a set
SeqsOver(S) ==
    IF S = {} THEN {<<>>}
    ELSE {<<>>} \cup UNION {{<<x>> \o t : t \in SeqsOver(S \ {x})} : x \in S}

Idle == pc = "idle"

\* the errors the provider answers a call with: googleapiclient raises
\* HttpError for every HTTP error status, 401 (the credentials are not
\* accepted) as well as any other
HttpErrors == {"HttpError 401", "HttpError 404"}

NoSync == [messages |-> <<>>, pos |-> 0, count |-> 0, log |-> <<>>, caught |-> ""]

NoReturn == [op |-> "none", value |-> 0]

\* list_messages raised HttpError and returned None, or listed nothing: "No
\* messages found", return 0
SyncNothing ==
    /\ Idle
    /\ pc' = "returned"
    /\ returned' = [op |-> "sync", value |-> 0]
    /\ UNCHANGED <<emails, ledger, rulesFile, labels, now, sync, run, calls, upserted, prev>>

\* list_messages returned a list of message summaries
SyncStart ==
    /\ Idle
    /\ \E messages \in SeqsOver(MsgIds) \ {<<>>} :
          sync' = [messages |-> messages, pos |-> 1, count |-> 0, log |-> <<>>,
                   caught |-> ""]
    /\ pc' = "sync"
    /\ UNCHANGED <<emails, ledger, rulesFile, labels, now, run, calls, returned, upserted, prev>>

\* the end of one turn of the loop over messages, which went as `how` says,
\* `caught` being the error get_message_detail caught in it ("" for none):
\* the next message, or, after the last, return count
SyncAdvance(count, how, caught) ==
    /\ sync' = [sync EXCEPT !.pos = sync.pos + 1, !.count = count,
                            !.log = Append(sync.log, how), !.caught = caught]
    /\ IF sync.pos < Len(sync.messages)
       THEN UNCHANGED <<pc, returned>>
       ELSE /\ pc' = "returned"
            /\ returned' = [op |-> "sync", value |-> count]

\* a loop that ends at the first message without a detail
SyncSkip_abort ==
    /\ pc = "sync"
    /\ sync' = [sync EXCEPT !.log = Append(sync.log, "no detail")]
    /\ pc' = "returned"
    /\ returned' = [op |-> "sync", value |-> sync.count]
    /\ UNCHANGED <<emails, ledger, rulesFile, labels, now, run, calls, upserted, prev>>

\* get_message_detail caught the provider's error (`except HttpError`, and
\* `except Exception` for anything else), printed it and returned None: the
\* id is skipped
SyncSkip ==
    /\ pc = "sync"
    /\ \E error \in HttpErrors :
          SyncAdvance(sync.count, "no detail", error)
    /\ UNCHANGED <<emails, ledger, rulesFile, labels, now, run, calls, upserted, prev>>

\* a detail is fetched and store_email commits it
SyncStore ==
    /\ pc = "sync"
    /\ \E d \in Details :
          /\ d.id = sync.messages[sync.pos]
          /\ emails' = store_email(emails, d)
          /\ upserted' = [upserted EXCEPT ![d.id] = Some(d)]
          /\ SyncAdvance(sync.count + 1,
                         IF upserted[d.id] = None THEN "inserted" ELSE "updated",
                         "")
    /\ prev' = None
    /\ UNCHANGED <<ledger, rulesFile, labels, now, run, calls>>

\* a loop that ends at the first message store_email fails on
SyncStoreFails_abort ==
    /\ pc = "sync"
    /\ sync' = [sync EXCEPT !.log = Append(sync.log, "not stored")]
    /\ pc' = "returned"
    /\ returned' = [op |-> "sync", value |-> sync.count]
    /\ UNCHANGED <<emails, ledger, rulesFile, labels, now, run, calls, upserted, prev>>

\* a detail is fetched and store_email meets sqlite3.Error: nothing is
\* committed, "Failed to store email"
SyncStoreFails ==
    /\ pc = "sync"
    /\ SyncAdvance(sync.count, "not stored", "")
    /\ UNCHANGED <<emails, ledger, rulesFile, labels, now, run, calls, upserted, prev>>

\* ------------------------------------------------------------------------
\* email_fetcher: provider calls and the Action Ledger
\* ------------------------------------------------------------------------

\* get_or_create_label's search of the listed labels: the id of the first
\* label whose lower-cased name is the lower-cased label_name, or None
RECURSIVE FindLabel(_, _, _)
FindLabel(listed, label_name, n) ==
    IF n > Len(listed) THEN None
    ELSE IF Lower(listed[n].name) = Lower(label_name) THEN Some(listed[n].id)
    ELSE FindLabel(listed, label_name, n + 1)

\* the id the provider gives a label it creates
NewLabelId(listed) ==
    <<"L","a","b","e","l","_">> \o <<(<<"1","2","3","4","5","6","7","8","9">>)[Len(listed) + 1]>>

\* get_or_create_label that creates the label without looking for it in the list
get_or_create_label_always_create(listed, label_name, at, listOk, createOk) ==
    LET list == [op |-> "labels.list", at |-> at, ok |-> listOk]
        create == [op |-> "labels.create", at |-> at, name |-> label_name, ok |-> createOk]
        new == [id |-> NewLabelId(listed), name |-> label_name]
    IN  IF ~listOk THEN [label_id |-> None, calls |-> <<list>>, labels |-> listed]
        ELSE IF ~createOk THEN [label_id |-> None, calls |-> <<list, create>>, labels |-> listed]
        ELSE [label_id |-> Some(new.id), calls |-> <<list, create>>,
              labels |-> Append(listed, new)]

\* get_or_create_label(service, label_name) at call site `at`, the provider
\* answering labels.list with listOk and labels.create with createOk (FALSE:
\* HttpError).  The result: the label id or None, the provider calls made, and
\* the provider's label list afterwards.
get_or_create_label(listed, label_name, at, listOk, createOk) ==
    LET list == [op |-> "labels.list", at |-> at, ok |-> listOk]
        create == [op |-> "labels.create", at |-> at, name |-> label_name, ok |-> createOk]
        found == FindLabel(listed, label_name, 1)
        new == [id |-> NewLabelId(listed), name |-> label_name]
    IN  IF ~listOk THEN [label_id |-> None, calls |-> <<list>>, labels |-> listed]
        ELSE IF found # None THEN [label_id |-> found, calls |-> <<list>>, labels |-> listed]
        ELSE IF ~createOk THEN [label_id |-> None, calls |-> <<list, create>>, labels |-> listed]
        ELSE [label_id |-> Some(new.id), calls |-> <<list, create>>,
              labels |-> Append(listed, new)]

\* modify_labels(service, msg_id, label_modifications): one messages.modify
\* call; HttpError is caught and False returned
modify_labels(msg_id, add, remove, at, modifyOk) ==
    [op |-> "messages.modify", at |-> at, id |-> msg_id, addLabelIds |-> add,
     removeLabelIds |-> remove, ok |-> modifyOk]

\* the row record_rule_action inserts
LedgerRow(email_id, rule_id, action_type, action_value) ==
    [email_id |-> email_id, rule_id |-> rule_id, action_type |-> action_type,
     action_value |-> action_value]

\* record_rule_action as INSERT OR REPLACE keyed by (email_id, rule_id)
record_rule_action_replace(rows, email_id, rule_id, action_type, action_value, recordOk) ==
    LET new == LedgerRow(email_id, rule_id, action_type, action_value)
        same(n) == rows[n].email_id = email_id /\ rows[n].rule_id = rule_id
    IN  IF ~recordOk THEN rows
        ELSE IF \E n \in 1..Len(rows) : same(n)
        THEN [n \in 1..Len(rows) |-> IF same(n) THEN new ELSE rows[n]]
        ELSE Append(rows, new)

\* record_rule_action: the INSERT is committed, or sqlite3.Error is caught and
\* nothing is
record_rule_action(rows, email_id, rule_id, action_type, action_value, recordOk) ==
    IF recordOk
    THEN Append(rows, LedgerRow(email_id, rule_id, action_type, action_value))
    ELSE rows

\* ------------------------------------------------------------------------
\* email_processor.apply_action
\* ------------------------------------------------------------------------

\* `value is True`
IsTrue(value) == value.t = "bool" /\ value.b

\* a test that takes no destination for a system location
IsSystemLocation_never(value) == FALSE

\* `value not in ['INBOX', 'TRASH', 'SPAM']`
IsSystemLocation(value) == value.t = "str" /\ value.v \in {S_INBOX, S_TRASH, S_SPAM}

\* str(value)
PyStr(value) ==
    CASE value.t = "bool" -> (IF value.b THEN <<"T","r","u","e">> ELSE <<"F","a","l","s","e">>)
      [] value.t = "str" -> value.v
      [] value.t = "null" -> <<"N","o","n","e">>
      [] value.t = "num" -> <<(<<"0","1","2","3","4","5","6","7","8","9">>)[value.n + 1]>>

\* apply_action returning the id of the label in the descriptor
apply_action_label_id(listed, email, action, at, listOk, createOk, modifyOk) ==
    LET action_type == Lower(action.type)
        value == action.value
        unsupported == [result |-> [text |-> "action not supported"],
                        calls |-> <<>>, labels |-> listed, resolutions |-> <<>>]
    IN  IF action_type = S_mark_as_read
        THEN IF IsTrue(value)
             THEN [result |-> [text |-> "marked as read"],
                   calls |-> << modify_labels(email.id, <<>>, <<S_UNREAD>>, at, modifyOk) >>,
                   labels |-> listed, resolutions |-> <<>>]
             ELSE [result |-> [text |-> "marked as unread"],
                   calls |-> << modify_labels(email.id, <<S_UNREAD>>, <<>>, at, modifyOk) >>,
                   labels |-> listed, resolutions |-> <<>>]
        ELSE IF action_type = S_move_message
        THEN LET resolve == ~IsSystemLocation(value)
                 got == IF resolve
                        THEN get_or_create_label(listed, value.v, at, listOk, createOk)
                        ELSE [label_id |-> Some(value.v), calls |-> <<>>, labels |-> listed]
                 resolutions == IF resolve THEN <<value.v>> ELSE <<>>
             IN  IF got.label_id # None
                 THEN [result |-> [text |-> "moved to", value |-> Val(got.label_id)],
                       calls |-> got.calls \o
                           << modify_labels(email.id, <<Val(got.label_id)>>, <<S_INBOX>>,
                                            at, modifyOk) >>,
                       labels |-> got.labels, resolutions |-> resolutions]
                 ELSE [unsupported EXCEPT !.calls = got.calls, !.resolutions = resolutions]
        ELSE unsupported

\* apply_action(service, email, action) for an action with a "type", and a
\* string "value" when the type is move_message.  The result: the descriptor
\* returned, the provider calls made in order, the provider's labels
\* afterwards, and the names get_or_create_label was called with.
apply_action(listed, email, action, at, listOk, createOk, modifyOk) ==
    LET action_type == Lower(action.type)
        value == action.value
        unsupported == [result |-> [text |-> "action not supported"],
                        calls |-> <<>>, labels |-> listed, resolutions |-> <<>>]
    IN  IF action_type = S_mark_as_read
        THEN IF IsTrue(value)
             THEN [result |-> [text |-> "marked as read"],
                   calls |-> << modify_labels(email.id, <<>>, <<S_UNREAD>>, at, modifyOk) >>,
                   labels |-> listed, resolutions |-> <<>>]
             ELSE [result |-> [text |-> "marked as unread"],
                   calls |-> << modify_labels(email.id, <<S_UNREAD>>, <<>>, at, modifyOk) >>,
                   labels |-> listed, resolutions |-> <<>>]
        ELSE IF action_type = S_move_message
        THEN LET resolve == ~IsSystemLocation(value)
                 got == IF resolve
                        THEN get_or_create_label(listed, value.v, at, listOk, createOk)
                        ELSE [label_id |-> Some(value.v), calls |-> <<>>, labels |-> listed]
                 resolutions == IF resolve THEN <<value.v>> ELSE <<>>
             IN  IF got.label_id # None
                 THEN [result |-> [text |-> "moved to", value |-> value.v],
                       calls |-> got.calls \o
                           << modify_labels(email.id, <<Val(got.label_id)>>, <<S_INBOX>>,
                                            at, modifyOk) >>,
                       labels |-> got.labels, resolutions |-> resolutions]
                 ELSE [unsupported EXCEPT !.calls = got.calls, !.resolutions = resolutions]
        ELSE unsupported

\* `if result:` a non-empty string is true
Truthy(result) == result.text # ""

\* ------------------------------------------------------------------------
\* email_processor.load_rules / process_emails_with_rules
\* ------------------------------------------------------------------------

\* a load_rules that does not read the file: the rules it was built with
load_rules_builtin(file) == [rules |-> <<DefaultRule>>]

\* load_rules(): the rules_data it returns ...
load_rules(file) ==
    IF file.kind = "missing" THEN [rules |-> <<DefaultRule>>]
    ELSE IF file.kind = "corrupt" THEN [rules |-> <<>>]
    ELSE [rules |-> file.rules]

\* ... and the file it leaves: a missing file is created with the default rule
load_rules_file(file) ==
    IF file.kind = "missing" THEN [kind |-> "json", rules |-> <<DefaultRule>>]
    ELSE file

NoRun == [rules |-> <<>>, emails |-> <<>>, i |-> 0, j |-> 0, k |-> 0,
          actions_applied |-> 0, base |-> 0, clean |-> TRUE, at |-> 0, applied |-> <<>>,
          caught |-> "", unrecorded |-> 0]

\* the ledger rows a run over these emails with these rules adds at most: one
\* per action of each rule that matches
RunActions(listed, rules, t) ==
    LET n == Len(listed) * Len(rules)
        e(x) == listed[1 + ((x - 1) \div Len(rules))]
        r(x) == rules[1 + ((x - 1) % Len(rules))]
        g[x \in 0..n] ==
            IF x = 0 THEN 0
            ELSE g[x - 1] + (IF evaluate_rule(e(x), r(x), t)
                             THEN Len(RuleGet(r(x), "actions", <<>>)) ELSE 0)
    IN  g[n]

\* the run up to its loop: load_rules, fetch_emails_from_db(limit=100) (dbOk
\* FALSE: sqlite3.Error, an empty list), and the two early returns
ProcessStart ==
    /\ Idle
    /\ \E dbOk \in BOOLEAN :
          LET rules == load_rules(rulesFile).rules
              listed == IF dbOk THEN fetch_emails_from_db(emails, ProcessLimit) ELSE <<>>
          IN  /\ Len(ledger) + RunActions(listed, rules, now) <= MaxLedger
              /\ rulesFile' = load_rules_file(rulesFile)
              /\ IF rules = <<>> \/ listed = <<>>
                 THEN /\ returned' = [op |-> "process", value |-> 0]
                      /\ run' = [NoRun EXCEPT !.rules = rules, !.emails = listed,
                                              !.base = Len(ledger), !.at = now]
                      /\ pc' = "returned"
                 ELSE /\ run' = [rules |-> rules, emails |-> listed, i |-> 1, j |-> 1,
                                 k |-> 0, actions_applied |-> 0, base |-> Len(ledger),
                                 clean |-> TRUE, at |-> now, applied |-> <<>>,
                                 caught |-> "", unrecorded |-> 0]
                      /\ pc' = "process"
                      /\ UNCHANGED returned
    /\ UNCHANGED <<emails, ledger, labels, now, sync, calls, upserted, prev>>

\* a loop over the rules that leaves an email at the first rule that fired
ProcessAdvance_first_match(r) ==
    IF r.k = 0 /\ r.j < Len(r.rules)
    THEN /\ run' = [r EXCEPT !.j = r.j + 1, !.k = 0]
         /\ UNCHANGED <<pc, returned>>
    ELSE IF r.i < Len(r.emails)
    THEN /\ run' = [r EXCEPT !.i = r.i + 1, !.j = 1, !.k = 0]
         /\ UNCHANGED <<pc, returned>>
    ELSE /\ run' = [r EXCEPT !.i = 0, !.j = 0, !.k = 0]
         /\ pc' = "returned"
         /\ returned' = [op |-> "process", value |-> r.actions_applied]

\* after rule j on email i: the next rule, the next email, or the return of
\* actions_applied
ProcessAdvance(r) ==
    IF r.j < Len(r.rules)
    THEN /\ run' = [r EXCEPT !.j = r.j + 1, !.k = 0]
         /\ UNCHANGED <<pc, returned>>
    ELSE IF r.i < Len(r.emails)
    THEN /\ run' = [r EXCEPT !.i = r.i + 1, !.j = 1, !.k = 0]
         /\ UNCHANGED <<pc, returned>>
    ELSE /\ run' = [r EXCEPT !.i = 0, !.j = 0, !.k = 0]
         /\ pc' = "returned"
         /\ returned' = [op |-> "process", value |-> r.actions_applied]

\* `if evaluate_rule(email, rule):` for rule j on email i
ProcessEvaluate ==
    /\ pc = "process" /\ run.k = 0
    /\ LET email == run.emails[run.i]
           rule == run.rules[run.j]
       IN  IF evaluate_rule(email, rule, now) /\ RuleGet(rule, "actions", <<>>) # <<>>
           THEN /\ run' = [run EXCEPT !.k = 1, !.caught = ""]
                /\ UNCHANGED <<pc, returned>>
           ELSE ProcessAdvance([run EXCEPT !.caught = ""])
    /\ UNCHANGED <<emails, ledger, rulesFile, labels, now, sync, calls, upserted, prev>>

\* how the provider and sqlite answer during one action: labels.list,
\* labels.create, messages.modify and the ledger INSERT (FALSE: HttpError,
\* sqlite3.Error), and the HttpError messages.modify is answered with when it
\* is not answered well ("" when it is)
Answers ==
    {env \in [listOk : BOOLEAN, createOk : BOOLEAN, modifyOk : BOOLEAN, recordOk : BOOLEAN,
              error : HttpErrors \cup {""}] : env.modifyOk <=> env.error = ""}

\* a loop turn that skips an action the ledger already holds for this email
\* and rule
ActionTurn_once(rows, listed, email, rule, action, at, env) ==
    LET rule_id == RuleGet(rule, "id", "unknown")
        row == LedgerRow(email.id, rule_id, action.type, PyStr(action.value))
        applied == apply_action(listed, email, action, at,
                                env.listOk, env.createOk, env.modifyOk)
    IN  IF \E n \in 1..Len(rows) : rows[n] = row
        THEN [result |-> [text |-> ""], calls |-> <<>>, labels |-> listed,
              counted |-> 0, ledger |-> rows]
        ELSE [result |-> applied.result, calls |-> applied.calls, labels |-> applied.labels,
              counted |-> 1,
              ledger |-> record_rule_action(rows, email.id, rule_id, action.type,
                                            PyStr(action.value), env.recordOk)]

\* a loop turn that counts the rules that fired and not their actions
ActionTurn_count_rules(rows, listed, email, rule, action, at, env) ==
    LET rule_id == RuleGet(rule, "id", "unknown")
        applied == apply_action(listed, email, action, at,
                                env.listOk, env.createOk, env.modifyOk)
    IN  [result |-> applied.result, calls |-> applied.calls, labels |-> applied.labels,
         counted |-> IF at[3] = 1 THEN 1 ELSE 0,
         ledger |-> record_rule_action(rows, email.id, rule_id, action.type,
                                       PyStr(action.value), env.recordOk)]

\* one turn of `for action in rule.get('actions', [])` on `email` for `rule`:
\* apply_action, then under `if result:` the count and record_rule_action.
\* The result: the provider calls made, the provider's labels and the ledger
\* afterwards, and what is added to actions_applied.
ActionTurn(rows, listed, email, rule, action, at, env) ==
    LET rule_id == RuleGet(rule, "id", "unknown")
        applied == apply_action(listed, email, action, at,
                                env.listOk, env.createOk, env.modifyOk)
    IN  IF Truthy(applied.result)
        THEN [result |-> applied.result, calls |-> applied.calls, labels |-> applied.labels,
              counted |-> 1,
              ledger |-> record_rule_action(rows, email.id, rule_id, action.type,
                                            PyStr(action.value), env.recordOk)]
        ELSE [result |-> applied.result, calls |-> applied.calls, labels |-> applied.labels,
              counted |-> 0, ledger |-> rows]

\* the answers drawn are those to the calls made: a call that is not made is
\* not answered with an error
Asked(made, env) ==
    LET ops == {made[n].op : n \in 1..Len(made)}
    IN  /\ "labels.list" \notin ops => env.listOk
        /\ "labels.create" \notin ops => env.createOk
        /\ "messages.modify" \notin ops => env.modifyOk

\* a run that writes the read flag of the email back to the store once the
\* provider has taken a mark_as_read
ProcessAction_writes_back ==
    /\ pc = "process" /\ run.k > 0
    /\ \E env \in Answers :
          LET email == run.emails[run.i]
              rule == run.rules[run.j]
              actions == rule.actions
              turn == ActionTurn(ledger, labels, email, rule, actions[run.k],
                                 <<run.i, run.j, run.k>>, env)
              marked == \E n \in 1..Len(turn.calls) :
                            /\ turn.calls[n].op = "messages.modify" /\ turn.calls[n].ok
                            /\ turn.calls[n].removeLabelIds = <<S_UNREAD>>
              r == [run EXCEPT
                      !.applied = Append(@, <<run.i, run.j, run.k>>),
                      !.actions_applied = @ + turn.counted,
                      !.unrecorded = @ + (IF Truthy(turn.result) /\ ~env.recordOk
                                          THEN 1 ELSE 0)]
          IN  /\ Asked(turn.calls, env)
              /\ calls' = calls \o turn.calls
              /\ labels' = turn.labels
              /\ ledger' = turn.ledger
              /\ emails' = [n \in 1..Len(emails) |->
                                IF marked /\ emails[n].id = email.id
                                THEN [emails[n] EXCEPT !.is_read = TRUE]
                                ELSE emails[n]]
              /\ IF run.k < Len(actions)
                 THEN /\ run' = [r EXCEPT !.k = run.k + 1]
                      /\ UNCHANGED <<pc, returned>>
                 ELSE ProcessAdvance(r)
    /\ UNCHANGED <<rulesFile, now, sync, upserted, prev>>

\* action k of rule j on email i; run.caught keeps the error modify_labels
\* caught and printed in it ("" for none), run.unrecorded counts the calls of
\* record_rule_action that caught sqlite3.Error
ProcessAction ==
    /\ pc = "process" /\ run.k > 0
    /\ \E env \in Answers :
          LET email == run.emails[run.i]
              rule == run.rules[run.j]
              actions == rule.actions
              turn == ActionTurn(ledger, labels, email, rule, actions[run.k],
                                 <<run.i, run.j, run.k>>, env)
              failed == \E n \in 1..Len(turn.calls) :
                            turn.calls[n].op = "messages.modify" /\ ~turn.calls[n].ok
              r == [run EXCEPT
                      !.applied = Append(@, <<run.i, run.j, run.k>>),
                      !.caught = IF failed THEN env.error ELSE "",
                      !.actions_applied = @ + turn.counted,
                      !.unrecorded = @ + (IF Truthy(turn.result) /\ ~env.recordOk
                                          THEN 1 ELSE 0),
                      !.clean = @ /\ (turn.counted = 1 => env.recordOk)
                                  /\ \A n \in 1..Len(turn.calls) :
                                        turn.calls[n].op = "messages.modify"
                                            \/ turn.calls[n].ok]
          IN  /\ Asked(turn.calls, env)
              /\ calls' = calls \o turn.calls
              /\ labels' = turn.labels
              /\ ledger' = turn.ledger
              /\ IF run.k < Len(actions)
                 THEN /\ run' = [r EXCEPT !.k = run.k + 1]
                      /\ UNCHANGED <<pc, returned>>
                 ELSE ProcessAdvance(r)
    /\ UNCHANGED <<emails, rulesFile, now, sync, upserted, prev>>

\* the ledger rows the current or last process run has added
Appended == SubSeq(ledger, run.base + 1, Len(ledger))

\* the messages.modify calls of the current or last process run, as issued
Mutations ==
    LET idx == {n \in 1..Len(calls) : calls[n].op = "messages.modify"}
        nth[m \in 0..Cardinality(idx)] ==
            IF m = 0 THEN 0 ELSE CHOOSE n \in idx : n > nth[m - 1] /\
                                    \A q \in idx : q > nth[m - 1] => n <= q
    IN  [m \in 1..Cardinality(idx) |->
            [id |-> calls[nth[m]].id, addLabelIds |-> calls[nth[m]].addLabelIds,
             removeLabelIds |-> calls[nth[m]].removeLabelIds]]

\* what a finished process run read and did
RunSummary ==
    [emails |-> run.emails, rules |-> run.rules, at |-> run.at, clean |-> run.clean,
     mutations |-> Mutations, appended |-> Appended]

\* the caller takes the value a run returned; the run's locals are gone
Return ==
    /\ pc = "returned"
    /\ pc' = "idle"
    /\ returned' = NoReturn
    /\ sync' = NoSync
    /\ run' = NoRun
    /\ calls' = <<>>
    /\ prev' = IF returned.op = "process" THEN Some(RunSummary) ELSE prev
    /\ UNCHANGED <<emails, ledger, rulesFile, labels, now, upserted>>

\* ------------------------------------------------------------------------
\* The environment
\* ------------------------------------------------------------------------

\* time passes between runs
Tick ==
    /\ Idle
    /\ now < MaxNow
    /\ now' = now + 1
    /\ prev' = None
    /\ UNCHANGED <<emails, ledger, rulesFile, labels, pc, sync, run, calls, returned, upserted>>

\* the rules file is rewritten (the dashboard's rule form, an editor)
EditRules ==
    /\ Idle
    /\ \E file \in RulesFiles : file # rulesFile /\ rulesFile' = file
    /\ prev' = None
    /\ UNCHANGED <<emails, ledger, labels, now, pc, sync, run, calls, returned, upserted>>

\* ------------------------------------------------------------------------
\* The program: init_database has created both tables, empty
\* ------------------------------------------------------------------------

NoApplied == [result |-> [text |-> ""], calls |-> <<>>, labels |-> <<>>, resolutions |-> <<>>]

NoAux == writers = <<>> /\ fetched = <<>> /\ listing = <<>>

NoEval ==
    /\ evKind = "none" /\ evEmail = <<>> /\ evCond = <<>> /\ evRule = <<>>
    /\ evAction = <<>>
    /\ evNow = 0 /\ evDone = FALSE /\ evResult = FALSE /\ evError = ""
    /\ evApplied = NoApplied

Init ==
    /\ emails = <<>>
    /\ ledger = <<>>
    /\ rulesFile \in RulesFiles
    /\ labels = SystemLabels
    /\ now = 0
    /\ pc = "idle"
    /\ sync = NoSync
    /\ run = NoRun
    /\ calls = <<>>
    /\ returned = NoReturn
    /\ upserted = [id \in MsgIds |-> None]
    /\ prev = None
    /\ NoEval
    /\ NoAux

Next ==
    \/ (SyncNothing /\ UNCHANGED <<evVars, auxVars>>)
    \/ (SyncStart /\ UNCHANGED <<evVars, auxVars>>)
    \/ (SyncSkip /\ UNCHANGED <<evVars, auxVars>>)
    \/ (SyncStore /\ UNCHANGED <<evVars, auxVars>>)
    \/ (SyncStoreFails /\ UNCHANGED <<evVars, auxVars>>)
    \/ (ProcessStart /\ UNCHANGED <<evVars, auxVars>>)
    \/ (ProcessEvaluate /\ UNCHANGED <<evVars, auxVars>>)
    \/ (ProcessAction /\ UNCHANGED <<evVars, auxVars>>)
    \/ (Return /\ UNCHANGED <<evVars, auxVars>>)
    \/ (Tick /\ UNCHANGED <<evVars, auxVars>>)
    \/ (EditRules /\ UNCHANGED <<evVars, auxVars>>)

Spec == Init /\ [][Next]_vars

\* ------------------------------------------------------------------------
\* The program started on a store that holds one newsletter, with a rules
\* file of one rule on newsletters
\* ------------------------------------------------------------------------

NewsletterDetail ==
    [id |-> "m3", thread_id |-> "t3", snippet |-> "s3",
     subject |-> <<"W","e","e","k","l","y"," ","N","e","w","s","l","e","t","t","e","r",
                   " ","#","1","2">>,
     from |-> <<"n","e","w","s","@","x">>, to |-> <<"m","e">>,
     date |-> "d3", parsed_date |-> Some(isoformat(-1, 0)), body |-> <<"h","i">>,
     is_read |-> FALSE, labels |-> "INBOX,UNREAD"]

NewsletterRule ==
    [id |-> "rule_news", predicate |-> <<"A","N","Y">>,
     conditions |-> << [field |-> S_subject, predicate |-> S_contains,
                        value |-> <<"n","e","w","s","l","e","t","t","e","r">>] >>,
     actions |-> << [type |-> S_mark_as_read, value |-> JBool(TRUE)] >>]

InitNewsletter ==
    /\ emails = <<Row(NewsletterDetail)>>
    /\ ledger = <<>>
    /\ rulesFile = [kind |-> "json", rules |-> <<NewsletterRule>>]
    /\ labels = SystemLabels
    /\ now = 0
    /\ pc = "idle"
    /\ sync = NoSync
    /\ run = NoRun
    /\ calls = <<>>
    /\ returned = NoReturn
    /\ upserted = [id \in MsgIds |-> None]
    /\ prev = None
    /\ NoEval
    /\ NoAux

SpecNewsletter == InitNewsletter /\ [][Next]_vars

\* ------------------------------------------------------------------------
\* The Email Store alone: two store_email calls running side by side, each on
\* its own connection, and a fetch_emails_from_db call beside them
\* ------------------------------------------------------------------------

\* the callers of store_email
Writers == {"w1", "w2"}

\* a list is asked for with a limit up to this
MaxLimit == 2

\* the parsed_date values of the rows the store starts with: none, and the
\* texts of two Date headers from different time zones
StoredDates == {None, Some(isoformat(-1, 1)), Some(isoformat(-2, -1))}

\* the details the rows the store starts with were stored from, one per id
StoredDetails == {d \in Details : d.is_read} \cup {NewsletterDetail}

\* the tables the store may start with: rows of distinct ids, in any rowid
\* order, with any of the dates
StoredTables ==
    UNION {{[n \in 1..Len(ds) |-> Row([ds[n] EXCEPT !.parsed_date = date[ds[n].id]])] :
               date \in [{d.id : d \in StoredDetails} -> StoredDates]} :
              ds \in SeqsOver(StoredDetails)}

\* `SELECT id FROM emails WHERE id = ?` and `if cursor.fetchone():`
select_id(rows, id) == \E n \in 1..Len(rows) : rows[n].id = id

\* `UPDATE emails SET ... WHERE id = ?` and the commit
update_email(rows, d) ==
    [n \in 1..Len(rows) |-> IF rows[n].id = d.id THEN Row(d) ELSE rows[n]]

\* `INSERT INTO emails (...) VALUES (...)` and the commit: id is the PRIMARY
\* KEY of the table, so the INSERT of an id the table has raises
\* sqlite3.IntegrityError
insert_email(rows, d) ==
    IF select_id(rows, d.id) THEN Raises("IntegrityError")
    ELSE Returns(Append(rows, Row(d)))

NoWriter(d) == [detail |-> d, pc |-> "select", result |-> "none", wrote |-> 0]

\* how many callers have executed their UPDATE or INSERT
Wrote == Cardinality({w \in Writers : writers[w].wrote > 0})

\* store_email up to `if cursor.fetchone():`; the SELECT runs outside any
\* transaction, so nothing keeps the table as it is until the write
StoreSelect(w) ==
    /\ writers[w].pc = "select"
    /\ writers' = [writers EXCEPT ![w].pc =
                      IF select_id(emails, writers[w].detail.id) THEN "update" ELSE "insert"]
    /\ UNCHANGED <<sysVars, evVars, fetched, listing>>

\* the rest of store_email: the UPDATE or the INSERT with its commit and
\* `return True`, or `except sqlite3.Error` and `return False`.  sqlite lets
\* one connection write at a time, the other waiting for its commit.
StoreWrite(w) ==
    /\ writers[w].pc \in {"update", "insert"}
    /\ LET d == writers[w].detail
           out == IF writers[w].pc = "update" THEN Returns(update_email(emails, d))
                  ELSE insert_email(emails, d)
       IN  /\ emails' = IF out.raised = "" THEN out.result ELSE emails
           /\ writers' = [writers EXCEPT
                            ![w].pc = "done",
                            ![w].result = IF out.raised = "" THEN "True" ELSE "False",
                            ![w].wrote = Wrote + 1]
    /\ UNCHANGED <<ledger, rulesFile, labels, now, pc, sync, run, calls, returned, upserted,
                   prev, evVars, fetched, listing>>

\* fetch_emails_from_db(limit) on a connection of its own: what it returned,
\* and the table it read
ListEmails ==
    /\ fetched = <<>>
    /\ \E limit \in 0..MaxLimit :
          fetched' = << [limit |-> limit, table |-> emails,
                        rows |-> fetch_emails_from_db(emails, limit)] >>
    /\ UNCHANGED <<sysVars, evVars, writers, listing>>

InitStore ==
    /\ emails \in StoredTables
    /\ ledger = <<>> /\ rulesFile = [kind |-> "missing"]
    /\ labels = SystemLabels /\ now = 0 /\ pc = "idle" /\ sync = NoSync /\ run = NoRun
    /\ calls = <<>> /\ returned = NoReturn /\ upserted = [id \in MsgIds |-> None]
    /\ prev = None
    /\ NoEval
    /\ \E d1 \in {d \in Details : d.id = "m1"}, d2 \in Details :
          writers = [w \in Writers |-> NoWriter(IF w = "w1" THEN d1 ELSE d2)]
    /\ fetched = <<>>
    /\ listing = <<>>

NextStore ==
    \/ \E w \in Writers : StoreSelect(w)
    \/ \E w \in Writers : StoreWrite(w)
    \/ ListEmails

SpecStore == InitStore /\ [][NextStore]_vars

\* ------------------------------------------------------------------------
\* email_fetcher.list_messages alone, against a provider that pages its
\* mailbox as it likes
\* ------------------------------------------------------------------------

\* list_messages is asked for up to this many messages
MaxResults == 3

\* the provider's mailbox holds up to this many
MaxMailbox == 4

\* a request that asks for the whole max_results on every page
PageSize_whole(max_results, collected) == max_results

\* `maxResults=max_results - len(messages)`
PageSize(max_results, collected) == max_results - collected

\* the pages the provider may answer a request with, `size` being the
\* maxResults asked for and `left` what the mailbox still holds: no more ids
\* than asked for and than it has (position numbers stand for the ids), and
\* a nextPageToken or none.  A page without ids has no 'messages' key.
Pages(size, left) ==
    [count : 0..(IF size < left THEN size ELSE left), token : BOOLEAN]

\* list_messages(service, max_results) entered, the mailbox holding `mailbox`
\* messages
NoListing(max_results, mailbox) ==
    [max_results |-> max_results, mailbox |-> mailbox, pc |-> "first",
     messages |-> <<>>, token |-> FALSE, empty |-> FALSE, asked |-> <<>>,
     result |-> None]

\* messages.extend(response['messages'])
Extend(messages, count) == messages \o [n \in 1..count |-> Len(messages) + n]

\* the first messages().list(maxResults=max_results) and the `if 'messages'
\* in response:` after it
ListFirst ==
    /\ listing.pc = "first"
    /\ \E page \in Pages(listing.max_results, listing.mailbox) :
          listing' = [listing EXCEPT
                        !.pc = "while",
                        !.asked = <<[maxResults |-> listing.max_results, collected |-> 0,
                                     token |-> FALSE]>>,
                        !.messages = Extend(@, page.count),
                        !.token = page.token,
                        !.empty = page.count = 0]
    /\ UNCHANGED <<sysVars, evVars, writers, fetched>>

\* one turn of `while 'nextPageToken' in response and len(messages) <
\* max_results:`: the next page is asked for, and extends the list or, having
\* no 'messages', breaks the loop
ListPage ==
    /\ listing.pc = "while"
    /\ listing.token /\ Len(listing.messages) < listing.max_results
    /\ LET size == PageSize(listing.max_results, Len(listing.messages))
       IN  \E page \in Pages(size, listing.mailbox - Len(listing.messages)) :
              listing' = [listing EXCEPT
                            !.pc = IF page.count = 0 THEN "return" ELSE "while",
                            !.asked = Append(@, [maxResults |-> size,
                                                 collected |-> Len(listing.messages),
                                                 token |-> listing.token]),
                            !.messages = Extend(@, page.count),
                            !.token = page.token,
                            !.empty = page.count = 0]
    /\ UNCHANGED <<sysVars, evVars, writers, fetched>>

\* the condition of the while is false: the loop is left
ListLeave ==
    /\ listing.pc = "while"
    /\ ~(listing.token /\ Len(listing.messages) < listing.max_results)
    /\ listing' = [listing EXCEPT !.pc = "return"]
    /\ UNCHANGED <<sysVars, evVars, writers, fetched>>

\* `return messages`
ListReturn ==
    /\ listing.pc = "return"
    /\ listing' = [listing EXCEPT !.pc = "returned", !.result = Some(listing.messages)]
    /\ UNCHANGED <<sysVars, evVars, writers, fetched>>

\* a request is answered with HttpError: `except HttpError`, `return None`
ListFails ==
    /\ \/ listing.pc = "first"
       \/ /\ listing.pc = "while"
          /\ listing.token /\ Len(listing.messages) < listing.max_results
    /\ listing' = [listing EXCEPT !.pc = "returned", !.result = None]
    /\ UNCHANGED <<sysVars, evVars, writers, fetched>>

InitPages ==
    /\ emails = <<>> /\ ledger = <<>> /\ rulesFile = [kind |-> "missing"]
    /\ labels = SystemLabels /\ now = 0 /\ pc = "idle" /\ sync = NoSync /\ run = NoRun
    /\ calls = <<>> /\ returned = NoReturn /\ upserted = [id \in MsgIds |-> None]
    /\ prev = None
    /\ NoEval
    /\ writers = <<>> /\ fetched = <<>>
    /\ \E max_results \in 1..MaxResults, mailbox \in 0..MaxMailbox :
          listing = NoListing(max_results, mailbox)

NextPages == ListFirst \/ ListPage \/ ListLeave \/ ListReturn \/ ListFails

SpecPages == InitPages /\ [][NextPages]_vars

\* ------------------------------------------------------------------------
\* The evaluators alone: evaluate_condition and evaluate_rule applied to
\* inputs drawn from bounded sets
\* ------------------------------------------------------------------------

TextAlphabet == {"a", "A", "b"}

StringsUpTo(n) == UNION {[1..m -> TextAlphabet] : m \in 0..n}

\* a row whose four text columns differ
BaseEmail ==
    [id |-> "m0", thread_id |-> "t0", subject |-> <<"b","a">>,
     sender |-> <<"s","n","d">>, recipient |-> <<"r","c","p">>, received_date |-> "d0",
     parsed_date |-> Some(isoformat(0, 0)), snippet |-> "s0", body |-> <<"b","d","y">>,
     is_read |-> FALSE, labels |-> "INBOX"]

\* the column that takes the drawn text, and the field the condition names:
\* each field with its own column, and a field whose column keeps BaseEmail's
\* text while another column takes the drawn one
TextTargets ==
    {[col |-> "sender", field |-> S_from], [col |-> "recipient", field |-> S_to],
     [col |-> "subject", field |-> S_subject], [col |-> "body", field |-> S_message],
     [col |-> "subject", field |-> <<"S","u","b","j","e","c","t">>],
     [col |-> "body", field |-> S_subject]}

TextPredicates ==
    {S_contains, S_does_not_contain, S_equals, S_does_not_equal,
     <<"C","o","n","t","a","i","n","s">>}

TextInputs ==
    {[email |-> [BaseEmail EXCEPT ![target.col] = text],
      condition |-> [field |-> target.field, predicate |-> predicate, value |-> value]] :
        target \in TextTargets, text \in StringsUpTo(MaxFieldLen),
        predicate \in TextPredicates, value \in StringsUpTo(MaxValueLen)}

\* values of a 'received' condition: "<amount> <unit>" and some that are not
ReceivedValues ==
    {amount \o <<" ">> \o unit :
        amount \in {<<"0">>, <<"1">>, <<"2">>, <<"+","1">>, <<"-","1">>, <<"x">>,
                    <<"1","_","0">>},
        unit \in {S_day, <<"d","a","y","s">>, <<"D","A","Y","S">>, S_month,
                  <<"M","o","n","t","h","s">>, <<"d">>, <<"h","o","u","r","s">>}}
      \cup {<<>>, <<"1">>, <<"1"," ","d","a","y"," ","a","g","o">>, <<"1"," "," ","d","a","y">>,
            <<"1",".","5"," ","d","a","y","s">>, <<"1","d","a","y">>, NotAString}

ReceivedPredicates ==
    {S_greater_than, S_less_than, <<"G","r","e","a","t","e","r"," ","T","h","a","n">>,
     S_equals}

EvalDates ==
    {None} \cup {Some(isoformat(t - m * DaysPerMonth * TicksPerDay, 0)) :
                    t \in (0 - MaxTick)..MaxTick, m \in {0, 1}}
           \cup {Some(isoformat(t, 1)) : t \in (0 - MaxTick)..MaxTick}

ReceivedInputs ==
    {[email |-> [BaseEmail EXCEPT !.parsed_date = date],
      condition |-> [field |-> S_received, predicate |-> predicate, value |-> value]] :
        date \in EvalDates, predicate \in ReceivedPredicates, value \in ReceivedValues}

\* the actions apply_action is given: the types it knows, in two letter cases,
\* and one it does not; values of every JSON kind for mark_as_read, a
\* destination name for move_message
ActionTypes ==
    {S_mark_as_read, <<"M","a","r","k","_","A","s","_","R","e","a","d">>,
     S_move_message, S_archive}

MarkValues ==
    {JBool(TRUE), JBool(FALSE), JNull, JNum(0), JNum(1), JStr(<<>>),
     JStr(<<"y","e","s">>), JStr(<<"t","r","u","e">>)}

Destinations ==
    {JStr(S_Work), JStr(<<"w","o","r","k">>), JStr(S_INBOX), JStr(S_TRASH), JStr(S_SPAM),
     JStr(<<"i","n","b","o","x">>), JStr(<<"S","e","n","t">>)}

\* the provider's labels: the system labels alone, or with a user label Work
LabelLists ==
    {SystemLabels,
     Append(SystemLabels, [id |-> <<"L","a","b","e","l","_","7">>, name |-> S_Work])}

ActionInputs ==
    {[action |-> [type |-> type, value |-> value], listed |-> listed, env |-> env] :
        type \in ActionTypes \ {S_move_message}, value \in MarkValues,
        listed \in LabelLists,
        env \in [listOk : BOOLEAN, createOk : BOOLEAN, modifyOk : BOOLEAN]}
      \cup
    {[action |-> [type |-> S_move_message, value |-> value], listed |-> listed, env |-> env] :
        value \in Destinations, listed \in LabelLists,
        env \in [listOk : BOOLEAN, createOk : BOOLEAN, modifyOk : BOOLEAN]}

\* conditions outside the vocabulary: fields and predicates the evaluator
\* knows and some it does not, with a value that is a string or is not
OtherFields ==
    {S_from, S_to, S_subject, S_message, <<"c","c">>, <<>>,
     <<"s","u","b","j","e","c","t","s">>, <<"m","e","s","s","a","g","e"," ">>}

OtherPredicates ==
    TextPredicates \cup {<<"m","a","t","c","h","e","s">>, <<>>, S_greater_than,
                         <<"c","o","n","t","a","i","n">>, <<"E","q","u","a","l","s"," ">>}

OtherInputs ==
    {[email |-> email,
      condition |-> [field |-> field, predicate |-> predicate, value |-> value]] :
        email \in {BaseEmail,
                   [BaseEmail EXCEPT !.sender = <<>>, !.recipient = <<>>,
                                     !.subject = <<>>, !.body = <<>>]},
        field \in OtherFields, predicate \in OtherPredicates,
        value \in {<<>>, <<"a">>, NotAString}}

\* conditions that are true of some of the rows below and false of others
ConditionSamples ==
    {[field |-> S_subject, predicate |-> S_contains, value |-> S_n],
     [field |-> S_from, predicate |-> S_contains, value |-> <<"@","x">>],
     [field |-> S_to, predicate |-> S_equals, value |-> <<"M","E">>],
     [field |-> S_received, predicate |-> S_greater_than, value |-> S_1_day]}

RulePredicates == {S_all, <<"A","L","L">>, S_any, <<"A","n","y">>, <<"n","o","n","e">>}

ConditionLists == UNION {[1..m -> ConditionSamples] : m \in 0..MaxConditions}

RuleInputs ==
    {[id |-> "r", predicate |-> p, conditions |-> cs] :
        p \in RulePredicates, cs \in ConditionLists}
      \cup {[id |-> "r", conditions |-> cs] : cs \in ConditionLists}
      \cup {[id |-> "r", predicate |-> p] : p \in RulePredicates}

InitEval ==
    /\ emails = <<>> /\ ledger = <<>> /\ rulesFile = [kind |-> "missing"]
    /\ labels = SystemLabels /\ now = 0 /\ pc = "idle" /\ sync = NoSync /\ run = NoRun
    /\ calls = <<>> /\ returned = NoReturn /\ upserted = [id \in MsgIds |-> None]
    /\ prev = None
    /\ NoAux
    /\ evDone = FALSE /\ evResult = FALSE /\ evError = "" /\ evApplied = NoApplied
    /\ \/ /\ evKind = "condition" /\ evRule = <<>> /\ evAction = <<>>
          /\ \E in \in TextInputs : evEmail = in.email /\ evCond = in.condition
          /\ evNow = 0
       \/ /\ evKind = "condition" /\ evRule = <<>> /\ evAction = <<>>
          /\ \E in \in ReceivedInputs : evEmail = in.email /\ evCond = in.condition
          /\ evNow \in 0..MaxTick
       \/ /\ evKind = "condition" /\ evRule = <<>> /\ evAction = <<>>
          /\ \E in \in OtherInputs : evEmail = in.email /\ evCond = in.condition
          /\ evNow = 0
       \/ /\ evKind = "rule" /\ evCond = <<>> /\ evAction = <<>>
          /\ evEmail \in {Row(d) : d \in Details}
          /\ evRule \in RuleInputs
          /\ evNow \in 0..MaxNow
       \/ /\ evKind = "action" /\ evRule = <<>> /\ evCond = <<>> /\ evNow = 0
          /\ evEmail \in {Row(d) : d \in Details}
          /\ evAction \in ActionInputs

\* evaluate_condition(email, condition) with the clock at evNow
EvalCondition ==
    /\ evKind = "condition" /\ ~evDone
    /\ evResult' = evaluate_condition(evEmail, evCond, evNow)
    /\ evError' = condition_outcome(evEmail, evCond, evNow).raised
    /\ evDone' = TRUE
    /\ UNCHANGED <<sysVars, auxVars, evKind, evEmail, evCond, evRule, evAction, evNow,
                   evApplied>>

\* an evaluate_rule that marks the email it matches as read at the provider
EvalRule_marks ==
    /\ evKind = "rule" /\ ~evDone
    /\ evResult' = evaluate_rule(evEmail, evRule, evNow)
    /\ evError' = evaluate_rule_raises(evEmail, evRule, evNow)
    /\ evDone' = TRUE
    /\ calls' = IF evResult'
                THEN Append(calls, modify_labels(evEmail.id, <<>>, <<S_UNREAD>>, <<1, 1, 1>>,
                                                 TRUE))
                ELSE calls
    /\ UNCHANGED <<emails, ledger, rulesFile, labels, now, pc, sync, run, returned, upserted,
                   prev, auxVars, evKind, evEmail, evCond, evRule, evAction, evNow,
                   evApplied>>

\* evaluate_rule(email, rule) with the clock at evNow
EvalRule ==
    /\ evKind = "rule" /\ ~evDone
    /\ evResult' = evaluate_rule(evEmail, evRule, evNow)
    /\ evError' = evaluate_rule_raises(evEmail, evRule, evNow)
    /\ evDone' = TRUE
    /\ UNCHANGED <<sysVars, auxVars, evKind, evEmail, evCond, evRule, evAction, evNow,
                   evApplied>>

\* apply_action(service, email, action) with the provider's labels and
\* answers as drawn
EvalAction ==
    /\ evKind = "action" /\ ~evDone
    /\ evApplied' = apply_action(evAction.listed, evEmail, evAction.action, <<1, 1, 1>>,
                                 evAction.env.listOk, evAction.env.createOk,
                                 evAction.env.modifyOk)
    /\ evDone' = TRUE
    /\ UNCHANGED <<sysVars, auxVars, evKind, evEmail, evCond, evRule, evAction, evNow,
                   evResult, evError>>

\* evaluate_rule(email, rule) called once more with the same arguments, the
\* clock still at evNow
EvalRuleAgain ==
    /\ evKind = "rule" /\ evDone
    /\ evKind' = "rule again"
    /\ evResult' = evaluate_rule(evEmail, evRule, evNow)
    /\ evError' = evaluate_rule_raises(evEmail, evRule, evNow)
    /\ UNCHANGED <<sysVars, auxVars, evEmail, evCond, evRule, evAction, evNow, evDone,
                   evApplied>>

NextEval == EvalCondition \/ EvalRule \/ EvalRuleAgain \/ EvalAction

SpecEval == InitEval /\ [][NextEval]_vars

\* ------------------------------------------------------------------------
\* Properties of the evaluators (checked under SpecEval)
\* ------------------------------------------------------------------------

RuleEvaluated == evKind = "rule" /\ evDone

EvConditions == RuleGet(evRule, "conditions", <<>>)

\* C7: a rule whose condition list is empty or absent never matches an email,
\* whatever its predicate: evaluate_rule returns False for it.
C7_EmptyRuleNeverMatches ==
    (RuleEvaluated /\ EvConditions = <<>>) => evResult = FALSE

\* an empty-condition rule with predicate "any" (and one with "ALL") has been
\* evaluated
C7_Witness ==
    /\ RuleEvaluated /\ "conditions" \in DOMAIN evRule /\ evRule.conditions = <<>>
    /\ "predicate" \in DOMAIN evRule /\ evRule.predicate = S_any
    /\ evResult = FALSE

\* the n-th condition of the evaluated rule holds of the evaluated email
EvConditionHolds(n) == evaluate_condition(evEmail, EvConditions[n], evNow)

\* the rule's predicate is `word` up to the case of its letters
EvPredicateIs(word) ==
    /\ "predicate" \in DOMAIN evRule
    /\ Len(evRule.predicate) = Len(word)
    /\ \A n \in 1..Len(word) : LowerChar(evRule.predicate[n]) = word[n]

\* C8: a rule with at least one condition matches iff at least one condition
\* holds when its predicate is "any" (in any letter case), and iff all its
\* conditions hold otherwise: predicate "all", any other word, or no predicate.
C8_RulePredicate ==
    (RuleEvaluated /\ EvConditions # <<>>) =>
        evResult = IF EvPredicateIs(S_any)
                   THEN \E n \in 1..Len(EvConditions) : EvConditionHolds(n)
                   ELSE \A n \in 1..Len(EvConditions) : EvConditionHolds(n)

\* "Any" over one condition that holds and one that does not: a match
C8_Witness ==
    /\ RuleEvaluated /\ Len(EvConditions) = 2
    /\ EvPredicateIs(S_any) /\ evRule.predicate # S_any
    /\ EvConditionHolds(1) /\ ~EvConditionHolds(2)
    /\ evResult = TRUE

\* the column a text field names: from is the sender, to the recipient,
\* message the body
EvColumnName ==
    LET f == Lower(evCond.field)
    IN  IF f = S_from THEN "sender"
        ELSE IF f = S_to THEN "recipient"
        ELSE IF f = S_subject THEN "subject"
        ELSE "body"

EvColumn == evEmail[EvColumnName]

TextEvaluated ==
    /\ evKind = "condition" /\ evDone
    /\ Lower(evCond.field) \in {S_from, S_to, S_subject, S_message}
    /\ IsStr(evCond.value)

\* a and b are the same string up to the case of their letters
SameFolded(a, b) ==
    Len(a) = Len(b) /\ \A n \in 1..Len(a) : LowerChar(a[n]) = LowerChar(b[n])

\* v occurs in s, up to the case of the letters
OccursFolded(v, s) ==
    \E start \in 1..(Len(s) + 1) :
        /\ start + Len(v) - 1 <= Len(s)
        /\ \A n \in 1..Len(v) : LowerChar(s[start + n - 1]) = LowerChar(v[n])

\* the evaluated condition with another predicate, value and field text
EvVariant(predicate, value, text) ==
    evaluate_condition([evEmail EXCEPT ![EvColumnName] = text],
                       [evCond EXCEPT !.predicate = predicate, !.value = value], evNow)

\* C9: on a text field, "contains" is true iff the case-folded value is a
\* substring of the case-folded field and "equals" iff the two case-folded
\* strings are identical; "does not contain" and "does not equal" are their
\* negations; no result changes when the value or the field text is replaced
\* by its lower-case form (so strings that differ only in case give the same
\* result).
C9_TextPredicates ==
    TextEvaluated =>
        LET p == Lower(evCond.predicate)
            sub == OccursFolded(evCond.value, EvColumn)
            same == SameFolded(evCond.value, EvColumn)
        IN  /\ p = S_contains => evResult = sub
            /\ p = S_does_not_contain =>
                  evResult = ~sub /\ evResult = ~EvVariant(S_contains, evCond.value, EvColumn)
            /\ p = S_equals => evResult = same
            /\ p = S_does_not_equal =>
                  evResult = ~same /\ evResult = ~EvVariant(S_equals, evCond.value, EvColumn)
            /\ EvVariant(evCond.predicate, Lower(evCond.value), EvColumn) = evResult
            /\ EvVariant(evCond.predicate, evCond.value, Lower(EvColumn)) = evResult

\* "contains" found a lower-case value inside an upper-case field text, past
\* its first letter
C9_Witness ==
    /\ TextEvaluated /\ evCond.predicate = S_contains
    /\ evCond.value = <<"a">> /\ EvColumn = <<"b","A">>
    /\ evResult = TRUE

\* the values "<amount> day(s)" drawn, with their amounts
DayValues ==
    {[value |-> amount.text \o <<" ">> \o unit, amount |-> amount.n] :
        amount \in {[text |-> <<"0">>, n |-> 0], [text |-> <<"1">>, n |-> 1],
                    [text |-> <<"2">>, n |-> 2]},
        unit \in {S_day, <<"d","a","y","s">>, <<"D","A","Y","S">>}}

ReceivedEvaluated ==
    /\ evKind = "condition" /\ evDone /\ evCond.field = S_received
    /\ evEmail.parsed_date # None
    /\ \E dv \in DayValues : dv.value = evCond.value

EvAmount == (CHOOSE dv \in DayValues : dv.value = evCond.value).amount

\* C10: for a 'received' condition "<amount> day(s)" on an email with a date,
\* "greater than" is true iff parsedDate < now - amount days and "less than"
\* iff parsedDate > now - amount days; an email dated exactly amount days
\* before now gets false from both, and no email gets true from both.
C10_ReceivedStrict ==
    ReceivedEvaluated =>
        LET p == Lower(evCond.predicate)
            date == parser_parse(Val(evEmail.parsed_date))
            threshold == evNow - EvAmount * TicksPerDay
            other == IF p = S_greater_than THEN S_less_than ELSE S_greater_than
            otherResult == evaluate_condition(evEmail, [evCond EXCEPT !.predicate = other],
                                              evNow)
        IN  /\ p = S_greater_than => evResult = (date < threshold)
            /\ p = S_less_than => evResult = (date > threshold)
            /\ p \in {S_greater_than, S_less_than} =>
                  /\ ~(evResult /\ otherResult)
                  /\ date = threshold => (~evResult /\ ~otherResult)

\* "greater than 1 days" evaluated on an email dated exactly one day before now
C10_Witness ==
    /\ ReceivedEvaluated /\ evCond.predicate = S_greater_than /\ EvAmount = 1
    /\ parser_parse(Val(evEmail.parsed_date)) = evNow - TicksPerDay
    /\ evResult = FALSE

ConditionEvaluated == evKind = "condition" /\ evDone

\* the positions of v where a whitespace-separated token starts, and the token
\* that starts at a position
TokenStarts(v) ==
    {n \in 1..Len(v) : ~IsSpace(v[n]) /\ (n = 1 \/ IsSpace(v[n - 1]))}

TokenAt(v, start) ==
    LET ends == {m \in start..Len(v) : \A q \in start..m : ~IsSpace(v[q])}
    IN  SubSeq(v, start, CHOOSE m \in ends : \A q \in ends : q <= m)

IsDigit(c) == c \in {"0", "1", "2", "3", "4", "5", "6", "7", "8", "9"}

\* t is a decimal integer as Python writes one: an optional sign, then digits,
\* with single underscores allowed between two digits
IsIntegerToken(t) ==
    LET body == IF t # <<>> /\ t[1] \in {"+", "-"} THEN SubSeq(t, 2, Len(t)) ELSE t
    IN  /\ body # <<>>
        /\ \A n \in 1..Len(body) :
              \/ IsDigit(body[n])
              \/ /\ body[n] = "_" /\ 1 < n /\ n < Len(body)
                 /\ IsDigit(body[n - 1]) /\ IsDigit(body[n + 1])

\* u starts with "day" or with "month", in any letter case
IsUnitToken(u) ==
    \E w \in {S_day, S_month} :
        Len(w) <= Len(u) /\ \A n \in 1..Len(w) : LowerChar(u[n]) = w[n]

\* v is not "<integer amount> <unit>"
MalformedValue(v) ==
    \/ ~IsStr(v)
    \/ Cardinality(TokenStarts(v)) # 2
    \/ \E a, b \in TokenStarts(v) :
          a < b /\ (~IsIntegerToken(TokenAt(v, a)) \/ ~IsUnitToken(TokenAt(v, b)))

\* C11: a 'received' condition never raises, and it evaluates to false
\* whenever the email's parsed_date is null, or the value is malformed (not
\* exactly two whitespace-separated tokens, an amount that is not an integer,
\* a unit that starts with neither "day" nor "month"), or the predicate is
\* neither "greater than" nor "less than".
C11_ReceivedFailsClosed ==
    (ConditionEvaluated /\ Lower(evCond.field) = S_received) =>
        /\ evError = ""
        /\ (\/ evEmail.parsed_date = None
            \/ MalformedValue(evCond.value)
            \/ Lower(evCond.predicate) \notin {S_greater_than, S_less_than}) =>
                evResult = FALSE

\* "greater than x day" on an email that "greater than 1 day" is true of: the
\* amount is not an integer, the result is false and nothing was raised
C11_Witness ==
    /\ ConditionEvaluated /\ evCond.field = S_received
    /\ evCond.predicate = S_greater_than /\ evCond.value = <<"x"," ","d","a","y">>
    /\ evEmail.parsed_date # None
    /\ evaluate_condition(evEmail, [evCond EXCEPT !.value = S_1_day], evNow)
    /\ evResult = FALSE /\ evError = ""

\* C12: a condition whose field is none of from, to, subject, message and
\* received, or whose field is a text field and whose predicate is none of
\* contains, does not contain, equals and does not equal (field and predicate
\* being strings, read in any letter case), evaluates to false and raises
\* nothing, whatever the email and the value.
C12_UnknownFailsClosed ==
    ConditionEvaluated =>
        LET f == Lower(evCond.field)
            p == Lower(evCond.predicate)
        IN  (\/ f \notin {S_from, S_to, S_subject, S_message, S_received}
             \/ /\ f \in {S_from, S_to, S_subject, S_message}
                /\ p \notin {S_contains, S_does_not_contain, S_equals, S_does_not_equal}) =>
                (evResult = FALSE /\ evError = "")

\* "subject matches 5": an unknown predicate on a text field, with a value
\* that is not a string, evaluated to false without an exception, where
\* "subject contains 5" raises
C12_Witness ==
    /\ ConditionEvaluated /\ evCond.field = S_subject
    /\ evCond.predicate = <<"m","a","t","c","h","e","s">> /\ evCond.value = NotAString
    /\ condition_outcome(evEmail, [evCond EXCEPT !.predicate = S_contains], evNow).raised
           = "AttributeError"
    /\ evResult = FALSE /\ evError = ""

\* ------------------------------------------------------------------------
\* Properties of apply_action (checked under SpecEval)
\* ------------------------------------------------------------------------

ActionApplied == evKind = "action" /\ evDone

EvType == Lower(evAction.action.type)

EvValue == evAction.action.value

\* the truth value Python gives a JSON value
PyTruthy(value) ==
    CASE value.t = "bool" -> value.b
      [] value.t = "str" -> value.v # <<>>
      [] value.t = "num" -> value.n # 0
      [] value.t = "null" -> FALSE

\* the positions of the provider calls of one kind among those apply_action made
CallsOf(op) == {n \in 1..Len(evApplied.calls) : evApplied.calls[n].op = op}

\* the call at position n is messages.modify on the email, adding and removing
\* these label ids
IsModify(n, add, remove) ==
    /\ evApplied.calls[n].op = "messages.modify"
    /\ evApplied.calls[n].id = evEmail.id
    /\ evApplied.calls[n].addLabelIds = add
    /\ evApplied.calls[n].removeLabelIds = remove

\* C13: a mark_as_read action with a truthy value makes one messages.modify
\* call that removes UNREAD from the email and returns "marked as read"; with
\* a falsy value it makes one call that adds UNREAD and returns "marked as
\* unread".
C13_MarkByTruthiness ==
    (ActionApplied /\ EvType = S_mark_as_read) =>
        /\ Len(evApplied.calls) = 1
        /\ IF PyTruthy(EvValue)
           THEN IsModify(1, <<>>, <<S_UNREAD>>) /\ evApplied.result.text = "marked as read"
           ELSE IsModify(1, <<S_UNREAD>>, <<>>) /\ evApplied.result.text = "marked as unread"

\* the destination of the move_message applied
Destination == EvValue.v

NeedsResolution == Destination \notin {S_INBOX, S_TRASH, S_SPAM}

\* every labels.list and labels.create call made was answered without error
ResolutionAnswered ==
    \A n \in CallsOf("labels.list") \cup CallsOf("labels.create") : evApplied.calls[n].ok

\* the provider has a label of this name, in any letter case, with this id
LabelNamed(listed, name, id) ==
    \E n \in 1..Len(listed) : SameFolded(listed[n].name, name) /\ listed[n].id = id

\* C14: a move_message whose destination is not INBOX, TRASH or SPAM calls
\* get_or_create_label exactly once, with the destination name, before any
\* messages.modify.  When the resolution yields a label, exactly one
\* messages.modify call follows it, on the email, removing INBOX and adding
\* the id of the label that bears the name, and the descriptor is "moved to"
\* with the destination name as written, not the label id; when it fails no
\* messages.modify call is made.
C14_MoveResolvesThenModifies ==
    (ActionApplied /\ EvType = S_move_message /\ NeedsResolution) =>
        LET last == Len(evApplied.calls)
        IN  /\ evApplied.resolutions = <<Destination>>
            /\ CallsOf("labels.list") = {1}
            /\ \A n \in CallsOf("labels.create") : evApplied.calls[n].name = Destination
            /\ IF ResolutionAnswered
               THEN /\ CallsOf("messages.modify") = {last}
                    /\ \E n \in 1..Len(evApplied.labels) :
                          /\ SameFolded(evApplied.labels[n].name, Destination)
                          /\ IsModify(last, <<evApplied.labels[n].id>>, <<S_INBOX>>)
                    /\ evApplied.result = [text |-> "moved to", value |-> Destination]
               ELSE CallsOf("messages.modify") = {}

\* a move to "Work", which the provider did not have: the label was created,
\* the email got the new label's id and the descriptor names "Work"
C14_Witness ==
    /\ ActionApplied /\ evAction.action = [type |-> S_move_message, value |-> JStr(S_Work)]
    /\ evAction.listed = SystemLabels
    /\ Len(evApplied.calls) = 3
    /\ IsModify(3, <<NewLabelId(SystemLabels)>>, <<S_INBOX>>)
    /\ evApplied.result = [text |-> "moved to", value |-> S_Work]

\* C15: a move_message whose destination is INBOX, TRASH or SPAM makes no
\* label resolution call: its only provider call is one messages.modify on
\* the email that removes INBOX and adds the destination itself.
C15_SystemLocationUsedDirectly ==
    (ActionApplied /\ EvType = S_move_message /\ ~NeedsResolution) =>
        /\ evApplied.resolutions = <<>>
        /\ CallsOf("labels.list") = {} /\ CallsOf("labels.create") = {}
        /\ Len(evApplied.calls) = 1
        /\ IsModify(1, <<Destination>>, <<S_INBOX>>)
        /\ evApplied.labels = evAction.listed

\* a move to TRASH, with the provider failing every label call it might get
C15_Witness ==
    /\ ActionApplied /\ evAction.action = [type |-> S_move_message, value |-> JStr(S_TRASH)]
    /\ ~evAction.env.listOk /\ ~evAction.env.createOk
    /\ IsModify(1, <<S_TRASH>>, <<S_INBOX>>)
    /\ evApplied.result = [text |-> "moved to", value |-> S_TRASH]

Recognized == EvType \in {S_mark_as_read, S_move_message}

\* C16 as claimed: every recognized action makes exactly one messages.modify
\* call; a move_message that needs label resolution makes exactly two
\* provider calls; no action makes more than two.
C16_ExactlyOneMutationTwoCalls ==
    (ActionApplied /\ Recognized) =>
        /\ Cardinality(CallsOf("messages.modify")) = 1
        /\ (EvType = S_move_message /\ NeedsResolution) => Len(evApplied.calls) = 2
        /\ Len(evApplied.calls) <= 2

\* C16 amended: no action makes more than one messages.modify call, and it is
\* its last provider call.  mark_as_read and a move_message to a system
\* location make that call and no other.  A move_message that needs label
\* resolution first calls labels.list, then labels.create if the list was
\* answered and has no label of that name, and calls messages.modify only if
\* the resolution was answered without error: at most three provider calls.
\* An action that is not recognized makes none.
C16_AtMostOneMutationThreeCalls ==
    ActionApplied =>
        LET last == Len(evApplied.calls)
            known == \E n \in 1..Len(evAction.listed) :
                        SameFolded(evAction.listed[n].name, Destination)
        IN  /\ CallsOf("messages.modify") \subseteq {last}
            /\ ~Recognized => last = 0
            /\ (EvType = S_mark_as_read \/ (EvType = S_move_message /\ ~NeedsResolution)) =>
                  (last = 1 /\ CallsOf("messages.modify") = {1})
            /\ (EvType = S_move_message /\ NeedsResolution) =>
                  /\ CallsOf("labels.list") = {1}
                  /\ CallsOf("labels.create") =
                        IF evAction.env.listOk /\ ~known THEN {2} ELSE {}
                  /\ CallsOf("messages.modify") = IF ResolutionAnswered THEN {last} ELSE {}
                  /\ last <= 3

\* a move to "Sent", a label the provider did not have, made three provider
\* calls: labels.list, labels.create and one messages.modify, the last
C16_Witness ==
    /\ ActionApplied
    /\ evAction.action = [type |-> S_move_message, value |-> JStr(<<"S","e","n","t">>)]
    /\ Len(evApplied.calls) = 3
    /\ evApplied.calls[2].op = "labels.create"
    /\ CallsOf("messages.modify") = {3}

\* ------------------------------------------------------------------------
\* Properties of the store, the ledger and the runs (checked under Spec)
\* ------------------------------------------------------------------------

\* the rows of the emails table with this id
RowsOf(id) == {n \in 1..Len(emails) : emails[n].id = id}

\* row n holds every field of detail d
HoldsDetail(n, d) ==
    /\ emails[n].thread_id = d.thread_id /\ emails[n].subject = d.subject
    /\ emails[n].sender = d.from /\ emails[n].recipient = d.to
    /\ emails[n].received_date = d.date /\ emails[n].parsed_date = d.parsed_date
    /\ emails[n].snippet = d.snippet /\ emails[n].body = d.body
    /\ emails[n].is_read = d.is_read /\ emails[n].labels = d.labels

\* C1: after any sequence of successful store_email calls the emails table
\* holds exactly one row per id ever stored, and none for any other id; that
\* row carries every field of the most recent detail stored for the id.
C1_OneRecordLatestFields ==
    \A id \in MsgIds :
        IF upserted[id] = None THEN RowsOf(id) = {}
        ELSE /\ Cardinality(RowsOf(id)) = 1
             /\ \A n \in RowsOf(id) : HoldsDetail(n, Val(upserted[id]))

\* a sync has just stored m1 over its row (an UPDATE) beside the row of m2,
\* and the row of m1 is the second detail of m1
C1_Witness ==
    /\ pc = "returned" /\ returned.op = "sync"
    /\ \E n \in 1..Len(sync.log) : sync.log[n] = "updated" /\ sync.messages[n] = "m1"
    /\ Len(emails) = 2
    /\ \E n \in RowsOf("m1") : emails[n].thread_id = "t1b" /\ emails[n].is_read

\* s is a prefix of t
IsPrefix(s, t) == Len(s) <= Len(t) /\ SubSeq(t, 1, Len(s)) = s

\* C2: the ledger is append-only: every step of a sync or process run leaves
\* the rows written so far in place and unchanged, and adds at most one row,
\* at the end (a successful record_rule_action adds exactly one).
C2_LedgerAppendOnly ==
    [][/\ IsPrefix(ledger, ledger')
       /\ Len(ledger') <= Len(ledger) + 1
       /\ Len(ledger') = Len(ledger) + 1 => (pc = "process" /\ run.k > 0)]_vars

\* two rows are in the ledger, the second written after the first by a later
\* step, and a sync has stored an email since
C2_Witness ==
    /\ Len(ledger) = 2
    /\ pc = "returned" /\ returned.op = "sync" /\ returned.value > 0

ProcessReturned == pc = "returned" /\ returned.op = "process"

\* C3: the processing pipeline never consults the ledger.  A process run that
\* follows another with the same store contents, the same rules and the same
\* clock -- neither run meeting a failed label resolution or a failed ledger
\* write -- issues the same messages.modify calls in the same order and
\* appends the same ledger rows again, whatever the ledger held: the ledger
\* then ends with those rows twice.
C3_RerunRepeats ==
    (/\ ProcessReturned /\ prev # None
     /\ Val(prev).emails = run.emails /\ Val(prev).rules = run.rules
     /\ Val(prev).at = run.at /\ Val(prev).clean /\ run.clean) =>
        /\ Mutations = Val(prev).mutations
        /\ Appended = Val(prev).appended
        /\ returned.value = Len(Appended)
        /\ IsPrefix(Val(prev).appended \o Appended,
                    SubSeq(ledger, run.base - Len(Appended) + 1, Len(ledger)))

\* the second of two runs has returned: it issued a mutation and appended a
\* row to a ledger that already held the first run's row
C3_Witness ==
    /\ ProcessReturned /\ prev # None /\ Val(prev).clean /\ run.clean
    /\ Len(Val(prev).mutations) = 1 /\ Len(Mutations) = 1
    /\ Len(Appended) = 1 /\ Len(ledger) = 2 /\ ledger[1] = ledger[2]

\* the calls a ProcessAction step adds to the log
NewCalls == SubSeq(calls', Len(calls) + 1, Len(calls'))

ActionStep == pc = "process" /\ run.k > 0 /\ Len(calls') >= Len(calls)

\* the action a ProcessAction step applies
StepAction == run.rules[run.j].actions[run.k]

\* C4: in a process run a ledger row is appended and the count incremented
\* only for an action whose application succeeded: a step whose
\* messages.modify call fails appends nothing and leaves the count as it was.
C4_FailedModifyNotRecorded ==
    [][(/\ ActionStep
        /\ \E n \in 1..Len(NewCalls) :
              NewCalls[n].op = "messages.modify" /\ ~NewCalls[n].ok) =>
            (ledger' = ledger /\ run'.actions_applied = run.actions_applied)]_vars

\* C5: an action whose type is neither mark_as_read nor move_message makes no
\* provider call, appends no ledger row and is not counted.
C5_UnsupportedNotRecorded ==
    [][(/\ ActionStep
        /\ Lower(StepAction.type) \notin {S_mark_as_read, S_move_message}) =>
            (/\ calls' = calls
             /\ ledger' = ledger
             /\ run'.actions_applied = run.actions_applied)]_vars

\* C6: when label resolution for a move_message to a user label fails with a
\* provider error, no messages.modify call is issued for the email and the
\* run appends no ledger row for the action and does not count it.
C6_FailedResolutionNotRecorded ==
    [][(/\ ActionStep
        /\ \E n \in 1..Len(NewCalls) :
              NewCalls[n].op \in {"labels.list", "labels.create"} /\ ~NewCalls[n].ok) =>
            (/\ \A n \in 1..Len(NewCalls) : NewCalls[n].op # "messages.modify"
             /\ ledger' = ledger
             /\ run'.actions_applied = run.actions_applied)]_vars

\* the positions <<email, rule, action>> a run over run.emails and run.rules
\* has to apply: every action of every rule that matches the email
Matches ==
    UNION {{<<i, j, k>> : k \in 1..Len(RuleGet(run.rules[j], "actions", <<>>))} :
              <<i, j>> \in {ij \in (1..Len(run.emails)) \X (1..Len(run.rules)) :
                               evaluate_rule(run.emails[ij[1]], run.rules[ij[2]], run.at)}}

\* a comes before b in the nested order: emails, then rules, then actions
NestedBefore(a, b) ==
    \/ a[1] < b[1]
    \/ a[1] = b[1] /\ a[2] < b[2]
    \/ a[1] = b[1] /\ a[2] = b[2] /\ a[3] < b[3]

\* C17: in a process run apply_action is called once for every action of every
\* rule that matches an email, and for nothing else, in nested order: the
\* emails as listed, for each the rules as the rules file has them, for each
\* its actions in order.  A rule that matched does not keep a later rule off
\* the same email.
C17_EveryMatchAppliedInOrder ==
    /\ pc = "process" =>
          /\ \A m, n \in 1..Len(run.applied) :
                m < n => NestedBefore(run.applied[m], run.applied[n])
          /\ \A n \in 1..Len(run.applied) : run.applied[n] \in Matches
    /\ ProcessReturned =>
          /\ \A m, n \in 1..Len(run.applied) :
                m < n => NestedBefore(run.applied[m], run.applied[n])
          /\ {run.applied[n] : n \in 1..Len(run.applied)} = Matches

\* a run has returned in which two rules fired on the same email, the second
\* after the first
C17_Witness ==
    /\ ProcessReturned /\ Len(run.applied) = 2
    /\ run.applied[1][1] = run.applied[2][1]
    /\ run.applied[1][2] < run.applied[2][2]

\* C18: with the rules file holding one rule (predicate ANY, one condition
\* subject contains "newsletter", one action mark_as_read true) and the store
\* holding one email whose subject is "Weekly Newsletter #12", a process run
\* whose ledger write succeeds returns 1, issues exactly one messages.modify
\* call and appends exactly one ledger row, of action_type mark_as_read.
C18_NewsletterEndToEnd ==
    (/\ ProcessReturned
     /\ run.rules = <<NewsletterRule>>
     /\ run.emails = <<Row(NewsletterDetail)>>
     /\ run.clean) =>
        /\ returned.value = 1
        /\ Mutations = << [id |-> "m3", addLabelIds |-> <<>>,
                            removeLabelIds |-> <<S_UNREAD>>] >>
        /\ Len(calls) = 1
        /\ Len(Appended) = 1
        /\ Appended[1].action_type = S_mark_as_read
        /\ Appended[1].email_id = "m3" /\ Appended[1].rule_id = "rule_news"

\* the run on the newsletter has returned 1 and its row is the only one in
\* the ledger
C18_Witness ==
    /\ ProcessReturned /\ run.rules = <<NewsletterRule>>
    /\ run.emails = <<Row(NewsletterDetail)>>
    /\ returned.value = 1 /\ Len(ledger) = 1 /\ ledger[1].rule_id = "rule_news"

\* the turns of a sync's loop that stored their message
StoredTurns(log) == {n \in 1..Len(log) : log[n] \in {"inserted", "updated"}}

\* C19: a sync returns the number of listed ids whose detail was fetched and
\* stored.  Every turn of its loop takes the next listed id; a turn whose
\* detail fetch fails stores nothing, changes no record and counts nothing,
\* and the loop goes on: the sync returns only after a turn for every listed
\* id.
C19_SyncCountsStored ==
    [][pc = "sync" =>
          /\ sync'.messages = sync.messages
          /\ sync'.pos = sync.pos + 1 /\ Len(sync'.log) = sync.pos
          /\ sync'.log[sync.pos] = "no detail" =>
                  (emails' = emails /\ sync'.count = sync.count)
          /\ sync'.log[sync.pos] \in {"inserted", "updated"} =>
                  /\ sync'.count = sync.count + 1
                  /\ \E n \in 1..Len(emails') : emails'[n].id = sync.messages[sync.pos]
          /\ pc' = "returned" <=> sync.pos = Len(sync.messages)
          /\ pc' = "returned" =>
                  /\ returned'.op = "sync"
                  /\ returned'.value = Cardinality(StoredTurns(sync'.log))]_vars

\* a sync of two listed ids has returned 1: the first had no detail, the
\* second was stored
C19_Witness ==
    /\ pc = "returned" /\ returned.op = "sync" /\ returned.value = 1
    /\ sync.log = <<"no detail", "inserted">>
    /\ Len(emails) = 1 /\ emails[1].id = sync.messages[2]

\* C20: a failed write does not end the run it happens in.  A sync in which
\* store_email failed for a message still takes every listed id and returns
\* its count; a process run in which record_rule_action failed still applies
\* every action of every matching rule and returns its count.
C20_WriteFailureDoesNotAbort ==
    /\ (/\ pc = "returned" /\ returned.op = "sync"
        /\ \E n \in 1..Len(sync.log) : sync.log[n] = "not stored") =>
            /\ Len(sync.log) = Len(sync.messages)
            /\ returned.value = Cardinality(StoredTurns(sync.log))
    /\ (ProcessReturned /\ Len(Appended) < returned.value) =>
            /\ {run.applied[n] : n \in 1..Len(run.applied)} = Matches
            /\ returned.value = Len(run.applied)

\* a sync of two ids returned 1 after store_email failed on the first, and
\* the second is in the store
C20_Witness ==
    /\ pc = "returned" /\ returned.op = "sync" /\ returned.value = 1
    /\ sync.log = <<"not stored", "inserted">>
    /\ Len(emails) = 1 /\ emails[1].id = sync.messages[2]

\* the provider's answer to a call made with credentials it does not accept
Unauthorized == "HttpError 401"

\* the error the run in progress, or the run that has just returned, met at
\* the provider on the last item it took: a detail fetch (a sync) or a label
\* mutation (a process run)
RunCaught == IF returned.op = "sync" \/ pc = "sync" THEN sync.caught ELSE run.caught

\* C21: an authentication failure of the provider is fatal to the run.  No
\* run is still in its loop after such a failure, on a detail fetch of a sync
\* or on a messages.modify of a process run, and a run that ends on one gives
\* its caller the error, not a count.
C21_AuthFailureIsFatal ==
    /\ pc \in {"sync", "process"} => RunCaught # Unauthorized
    /\ (pc = "returned" /\ RunCaught = Unauthorized) => returned.op = "error"

\* both store_email calls have returned
BothStored == \A w \in Writers : writers[w].pc = "done"

\* the caller whose UPDATE or INSERT came last
LastWriter == CHOOSE w \in Writers : writers[w].wrote = Cardinality(Writers)

\* C22: two store_email calls on the same id, running side by side, both
\* return True however their SELECT and their UPDATE or INSERT interleave,
\* whether the store had the id before or not; the store then holds exactly
\* one row of that id, with the columns of the call that wrote last.
C22_ConcurrentUpsertLastWriterWins ==
    (BothStored /\ writers["w1"].detail.id = writers["w2"].detail.id) =>
        /\ \A w \in Writers : writers[w].result = "True"
        /\ Cardinality(RowsOf(writers["w1"].detail.id)) = 1
        /\ \E n \in 1..Len(emails) : emails[n] = Row(writers[LastWriter].detail)

\* the instant of a row that has a date
Instant(row) == parser_parse(Val(row.parsed_date))

\* row a is at least as recent as row b, a row without a date counting as
\* less recent than every row with one
AsRecent(a, b) ==
    \/ b.parsed_date = None
    \/ a.parsed_date # None /\ Instant(a) >= Instant(b)

\* C23: fetch_emails_from_db(limit) returns at most limit rows of the table,
\* each once, the most recent first and the rows without a parsed_date after
\* all the others; it returns every row when the table has no more than
\* limit, and otherwise the limit most recent ones: no row left out is more
\* recent than a row returned.
C23_ListMostRecentFirst ==
    fetched # <<>> =>
        LET rows == fetched[1].rows
            table == fetched[1].table
            limit == fetched[1].limit
            left == {m \in 1..Len(table) : \A n \in 1..Len(rows) : rows[n] # table[m]}
        IN  /\ Len(rows) <= limit
            /\ \A n \in 1..Len(rows) : \E m \in 1..Len(table) : table[m] = rows[n]
            /\ \A m, n \in 1..Len(rows) : rows[m].id = rows[n].id => m = n
            /\ \A m, n \in 1..Len(rows) : m < n => AsRecent(rows[m], rows[n])
            /\ Len(rows) = IF Len(table) > limit THEN limit ELSE Len(table)
            /\ \A m \in left : \A n \in 1..Len(rows) : AsRecent(rows[n], table[m])

RuleSetOf(file) ==
    IF file.kind = "json" THEN file.rules
    ELSE IF file.kind = "missing" THEN <<DefaultRule>>
    ELSE <<>>

\* the ids ledger rows of these rules carry
RuleIds(rules) == {RuleGet(rules[n], "id", "unknown") : n \in 1..Len(rules)}

\* the step is the start of a process run
StartsProcess ==
    pc = "idle" /\ (pc' = "process" \/ (pc' = "returned" /\ returned'.op = "process"))

\* C25: a process run takes the RuleSet the rules file defines when the run
\* starts, whatever earlier runs took, and keeps it to its end: every rule it
\* evaluates and every ledger row it appends is of that RuleSet.
C25_RulesReloadedPerRun ==
    [][/\ StartsProcess => run'.rules = RuleSetOf(rulesFile)
       /\ pc = "process" =>
             /\ run'.rules = run.rules
             /\ Len(ledger') > Len(ledger) =>
                   ledger'[Len(ledger')].rule_id = RuleGet(run.rules[run.j], "id", "unknown")]_vars

\* a run under the default rule has appended its row after a run under other
\* rules, none of them with the id rule1, appended theirs
C25_Witness ==
    /\ ProcessReturned /\ run.rules = <<DefaultRule>> /\ run.base = 1
    /\ Len(ledger) = 2 /\ ledger[1].rule_id = "unknown" /\ ledger[2].rule_id = "rule1"

\* C26: list_messages ends after at most max_results + 1 requests and never
\* holds more than max_results ids.  The first request asks for max_results;
\* every later one is made after a response with a nextPageToken, with fewer
\* than max_results ids collected, and asks for the ids still missing.  The
\* list is returned when it holds max_results ids or the provider has no more
\* to give: its last response had no nextPageToken, or no message.
C26_ListingBoundedAndEnds ==
    LET N == listing.max_results
        asked == listing.asked
    IN  /\ Len(listing.messages) <= N
        /\ Len(asked) <= N + 1
        /\ \A n \in 1..Len(asked) :
              IF n = 1 THEN asked[n].maxResults = N
              ELSE /\ asked[n].token /\ asked[n].collected < N
                   /\ asked[n].maxResults = N - asked[n].collected
        /\ (listing.pc = "returned" /\ listing.result # None) =>
              /\ Val(listing.result) = listing.messages
              /\ Len(listing.messages) = N \/ ~listing.token \/ listing.empty

\* three ids were asked for and came in two pages, of two and of one
C26_Witness ==
    /\ listing.pc = "returned" /\ listing.max_results = 3
    /\ Len(listing.asked) = 2 /\ listing.asked[2].maxResults = 1
    /\ listing.result = Some(<<1, 2, 3>>) /\ listing.token

\* the decimal text of an integer
RECURSIVE Decimal(_)
Decimal(n) ==
    IF n < 0 THEN <<"-">> \o Decimal(0 - n)
    ELSE IF n < 10 THEN <<(<<"0","1","2","3","4","5","6","7","8","9">>)[n + 1]>>
    ELSE Decimal(n \div 10) \o Decimal(n % 10)

\* a 'received' condition "<integer> <unit>" evaluated on an email with a date
UnitEvaluated ==
    /\ ConditionEvaluated /\ Lower(evCond.field) = S_received
    /\ evEmail.parsed_date # None
    /\ IsStr(evCond.value) /\ Cardinality(TokenStarts(evCond.value)) = 2
    /\ \E a \in TokenStarts(evCond.value) :
          (\A b \in TokenStarts(evCond.value) : a <= b)
              /\ IsIntegerToken(TokenAt(evCond.value, a))

\* its two tokens
EvTokens ==
    LET v == evCond.value
        a == CHOOSE a \in TokenStarts(v) : \A b \in TokenStarts(v) : a <= b
        b == CHOOSE b \in TokenStarts(v) : b # a
    IN  [amount |-> Val(ParseInt(TokenAt(v, a))), unit |-> TokenAt(v, b)]

\* the unit begins with the word, in whatever letter case
UnitBegins(word) ==
    /\ Len(EvTokens.unit) >= Len(word)
    /\ \A n \in 1..Len(word) : LowerChar(EvTokens.unit[n]) = word[n]

\* C27: in a 'received' condition the unit is matched by prefix and without
\* regard to case.  A unit that begins with "day" puts the threshold amount
\* days before now, one that begins with "month" 30 * amount days before now,
\* "greater than" asking for a date before the threshold and "less than" for
\* one after it; so "N months" is answered as "30*N days" is, on every email
\* and for both predicates.
C27_UnitByPrefix ==
    UnitEvaluated =>
        LET p == Lower(evCond.predicate)
            date == parser_parse(Val(evEmail.parsed_date))
            days == IF UnitBegins(S_day) THEN EvTokens.amount
                    ELSE DaysPerMonth * EvTokens.amount
            threshold == evNow - days * TicksPerDay
            inDays == [evCond EXCEPT !.value = Decimal(days) \o <<" ","d","a","y","s">>]
        IN  (UnitBegins(S_day) \/ UnitBegins(S_month)) =>
                /\ p = S_greater_than => evResult = (date < threshold)
                /\ p = S_less_than => evResult = (date > threshold)
                /\ evResult = evaluate_condition(evEmail, inDays, evNow)

\* "greater than 1 Months" is true of an email one tick older than 30 days
C27_Witness ==
    /\ UnitEvaluated /\ evCond.predicate = S_greater_than
    /\ evCond.value = <<"1"," ","M","o","n","t","h","s">>
    /\ parser_parse(Val(evEmail.parsed_date)) = evNow - DaysPerMonth * TicksPerDay - 1
    /\ evResult

\* C28: the count a process run returns is the number of ledger rows the run
\* appended plus the number of its ledger writes that failed: the two are
\* equal when no write failed, and the rows appended are never more than the
\* count.  The same holds of actions_applied at every point of the run.
C28_CountMatchesLedger ==
    /\ pc = "process" => /\ run.actions_applied = Len(Appended) + run.unrecorded
                         /\ Len(Appended) <= run.actions_applied
    /\ ProcessReturned =>
          /\ Len(Appended) <= returned.value
          /\ run.unrecorded = 0 => returned.value = Len(Appended)
          /\ returned.value = Len(Appended) + run.unrecorded

\* a run returned 2 having appended one row, and a run returned 2 having
\* appended two
C28_Witness ==
    /\ ProcessReturned /\ returned.value = 2
    /\ \/ Len(Appended) = 1 /\ run.unrecorded = 1
       \/ Len(Appended) = 2 /\ run.unrecorded = 0 /\ Len(ledger) > 2

\* the step is the start of a sync run
StartsSync ==
    pc = "idle" /\ (pc' = "sync" \/ (pc' = "returned" /\ returned'.op = "sync"))

\* C29: no step of a process run changes the Email Store: the rows and every
\* field of every row, is_read and labels among them, stay as they are, also
\* in the step that has the provider mark or move the email; the store changes
\* in steps of a sync run only.  No step of a sync run appends to the ledger,
\* calls the provider's messages.modify or any label call, or changes the
\* provider's labels.
C29_ProcessLeavesStoreSyncLeavesLedger ==
    [][/\ (StartsProcess \/ pc = "process") => emails' = emails
       /\ emails' # emails => pc = "sync"
       /\ (StartsSync \/ pc = "sync") =>
             (ledger' = ledger /\ calls' = calls /\ labels' = labels)
       /\ ledger' # ledger => pc = "process"]_vars

\* a run has had the provider mark an email as read, and the stored row of
\* that email is unread with the UNREAD label as the last sync left it
C29_Witness ==
    /\ ProcessReturned
    /\ \E n \in 1..Len(calls) : \E m \in 1..Len(emails) :
          /\ calls[n].op = "messages.modify" /\ calls[n].ok
          /\ calls[n].removeLabelIds = <<S_UNREAD>>
          /\ emails[m].id = calls[n].id
          /\ ~emails[m].is_read
          /\ upserted[emails[m].id] # None
          /\ emails[m] = Row(Val(upserted[emails[m].id]))

\* the ids of the rows of the Email Store
StoredIds == {emails[m].id : m \in 1..Len(emails)}

\* the id a ledger row of this rule carries
WrittenId(rule) == IF "id" \in DOMAIN rule THEN rule.id ELSE "unknown"

\* C30: every ledger row carries the id of a row of the Email Store, and every
\* row a process run has appended carries the id of an email the run read
\* from the store and the id of a rule of the run's RuleSet, "unknown" for a
\* rule without an id.
C30_LedgerRefersToStoreAndRules ==
    /\ \A n \in 1..Len(ledger) : ledger[n].email_id \in StoredIds
    /\ (pc = "process" \/ ProcessReturned) =>
          \A n \in 1..Len(Appended) :
              /\ Appended[n].email_id \in {run.emails[m].id : m \in 1..Len(run.emails)}
              /\ Appended[n].rule_id \in {WrittenId(run.rules[j]) : j \in 1..Len(run.rules)}

\* over a store of two emails, a run whose first rule has no id has written
\* two rows "unknown" for one of them
C30_Witness ==
    /\ ProcessReturned /\ Len(emails) = 2 /\ Len(Appended) = 2
    /\ MoveRule = run.rules[1]
    /\ \A n \in 1..2 : /\ ledger[n].rule_id = "unknown"
                        /\ ledger[n].email_id = ledger[1].email_id
                        /\ ledger[n].email_id \in StoredIds

====
